---- MODULE Spec2Model ----
(***************************************************************************)
(* State-machine model of the falling-block game of this repository.       *)
(*                                                                         *)
(* The repository carries two revisions of the game component:             *)
(*   - src/App.tsx       : the session with the hold slot (holdPiece);     *)
(*   - src/constants.ts  : below the catalog, the session with stopGame,   *)
(*                         moveToEnd and updateConfig (no hold slot).      *)
(* Definitions without a suffix model src/App.tsx (and the code that is    *)
(* textually identical in both revisions); definitions ending in F model   *)
(* the revision in src/constants.ts.                                       *)
(*                                                                         *)
(* Indices: the source indexes rows and columns from 0, TLA+ sequences     *)
(* from 1; grid[y][x] of the source is grid[y + 1][x + 1] here.            *)
(***************************************************************************)
EXTENDS Integers, Sequences, FiniteSets, TLC

VARIABLES gameState, op, steps, probe, revision, gameLoop, coach, pending

vars == <<gameState, op, steps, probe, revision, gameLoop, coach, pending>>

(***************************************************************************)
(* Bounds of the exploration.                                              *)
(***************************************************************************)
MaxSteps == 2

(***************************************************************************)
(* Program constants.                                                      *)
(***************************************************************************)
INITIAL_WIDTH == 10

INITIAL_HEIGHT == 20

types == <<"I", "J", "L", "O", "S", "T", "Z">>

Kinds == {types[i] : i \in 1..Len(types)}

TETROMINOES ==
  [k \in Kinds |->
     CASE k = "I" -> [shape |-> << <<0, 0, 0, 0>>,
                                   <<1, 1, 1, 1>>,
                                   <<0, 0, 0, 0>>,
                                   <<0, 0, 0, 0>> >>, color |-> "bg-cyan-400"]
       [] k = "J" -> [shape |-> << <<1, 0, 0>>,
                                   <<1, 1, 1>>,
                                   <<0, 0, 0>> >>, color |-> "bg-blue-600"]
       [] k = "L" -> [shape |-> << <<0, 0, 1>>,
                                   <<1, 1, 1>>,
                                   <<0, 0, 0>> >>, color |-> "bg-orange-500"]
       [] k = "O" -> [shape |-> << <<1, 1>>,
                                   <<1, 1>> >>, color |-> "bg-yellow-400"]
       [] k = "S" -> [shape |-> << <<0, 1, 1>>,
                                   <<1, 1, 0>>,
                                   <<0, 0, 0>> >>, color |-> "bg-green-500"]
       [] k = "T" -> [shape |-> << <<0, 1, 0>>,
                                   <<1, 1, 1>>,
                                   <<0, 0, 0>> >>, color |-> "bg-purple-500"]
       [] k = "Z" -> [shape |-> << <<1, 1, 0>>,
                                   <<0, 1, 1>>,
                                   <<0, 0, 0>> >>, color |-> "bg-red-500"]]

SCORING == (1 :> 100) @@ (2 :> 300) @@ (3 :> 500) @@ (4 :> 800)

(***************************************************************************)
(* Values of the source's types.                                           *)
(***************************************************************************)
\* GameState['status'] (types.ts)
Status == {"PLAYING", "PAUSED", "GAME_OVER", "IDLE"}

\* an empty grid cell (null in (string | null)[][])
nullCell == "null"

\* an absent piece (null in Tetromino | null)
nullPiece == [type |-> "null", shape |-> <<>>, color |-> "null",
              position |-> [x |-> 0, y |-> 0]]

\* an omitted optional argument
undefined == <<>>

\* Array.from({ length: h }, () => Array(w).fill(null))
\* (SubSeq over the whole index range yields the same sequence, held as an
\* explicit tuple)
tuple(s) == SubSeq(s, 1, Len(s))

emptyGrid(w, h) == tuple([y \in 1..h |-> tuple([x \in 1..w |-> nullCell])])

(***************************************************************************)
(* getRandomPiece: the kind drawn by Math.random() is the parameter type.  *)
(***************************************************************************)
getRandomPiece(width, type) ==
  [type     |-> type,
   shape    |-> TETROMINOES[type].shape,
   color    |-> TETROMINOES[type].color,
   position |-> [x |-> (width \div 2) - 2, y |-> 0]]

(***************************************************************************)
(* checkCollision: the row-major scan over the shape with its early        *)
(* return.  collidesAt is the test applied to one cell of the shape.       *)
(***************************************************************************)
\* a cell test whose left bound is off by one
collidesAtLeftOff(piece, grid, moveX, moveY, shape, y, x) ==
  LET nextX == piece.position.x + x + moveX
      nextY == piece.position.y + y + moveY
  IN  \/ nextX <= 0
      \/ nextX >= Len(grid[1])
      \/ nextY >= Len(grid)
      \/ (nextY >= 0 /\ grid[nextY + 1][nextX + 1] # nullCell)

collidesAt(piece, grid, moveX, moveY, shape, y, x) ==
  LET nextX == piece.position.x + x + moveX
      nextY == piece.position.y + y + moveY
  IN  \/ nextX < 0
      \/ nextX >= Len(grid[1])
      \/ nextY >= Len(grid)
      \/ (nextY >= 0 /\ grid[nextY + 1][nextX + 1] # nullCell)

RECURSIVE scanCollision(_, _, _, _, _, _, _)
scanCollision(piece, grid, moveX, moveY, shape, y, x) ==
  IF y >= Len(shape) THEN FALSE
  ELSE IF x >= Len(shape[y + 1])
       THEN scanCollision(piece, grid, moveX, moveY, shape, y + 1, 0)
       ELSE IF shape[y + 1][x + 1] # 0
               /\ collidesAt(piece, grid, moveX, moveY, shape, y, x)
            THEN TRUE
            ELSE scanCollision(piece, grid, moveX, moveY, shape, y, x + 1)

checkCollision(piece, grid, moveX, moveY, newShape) ==
  LET shape == IF newShape = undefined THEN piece.shape ELSE newShape
  IN  scanCollision(piece, grid, moveX, moveY, shape, 0, 0)

(***************************************************************************)
(* The rotation computed inside rotate: transpose, then reverse each row   *)
(* (clockwise) or the order of the rows (counter-clockwise).               *)
(***************************************************************************)
reverse(s) == tuple([i \in 1..Len(s) |-> s[Len(s) + 1 - i]])

transpose(shape) ==
  tuple([index \in 1..Len(shape[1]) |->
           tuple([r \in 1..Len(shape) |-> shape[r][index]])])

\* a turn that shifts by one cell where it should reverse
rotateShapeShift(shape, clockwise) ==
  IF clockwise
  THEN tuple([r \in 1..Len(transpose(shape)) |->
                tuple([c \in 1..Len(transpose(shape)[r]) |->
                   transpose(shape)[r][(c % Len(transpose(shape)[r])) + 1]])])
  ELSE tuple([r \in 1..Len(transpose(shape)) |->
                transpose(shape)[(r % Len(transpose(shape))) + 1]])

rotateShape(shape, clockwise) ==
  IF clockwise
  THEN tuple([r \in 1..Len(transpose(shape)) |-> reverse(transpose(shape)[r])])
  ELSE reverse(transpose(shape))

(***************************************************************************)
(* toggleFreeze                                                            *)
(***************************************************************************)
\* a freeze that pauses the session
toggleFreezePauses(prev) ==
  IF prev.status # "PLAYING" THEN prev
  ELSE [prev EXCEPT !.isFrozen = ~prev.isFrozen, !.status = "PAUSED"]

\* a toggle that does not look at the status
toggleFreezeAnytime(prev) == [prev EXCEPT !.isFrozen = ~prev.isFrozen]

toggleFreeze(prev) ==
  IF prev.status # "PLAYING" THEN prev
  ELSE [prev EXCEPT !.isFrozen = ~prev.isFrozen]

(***************************************************************************)
(* rotate                                                                  *)
(***************************************************************************)
\* a rotate that lifts the turned piece by one row when it is below the top
rotateKicksUp(prev, clockwise) ==
  IF prev.currentPiece = nullPiece \/ prev.status # "PLAYING" \/ prev.isFrozen
  THEN prev
  ELSE LET newShape == rotateShape(prev.currentPiece.shape, clockwise)
           dy == IF prev.currentPiece.position.y > 0 THEN -1 ELSE 0
       IN  IF ~checkCollision(prev.currentPiece, prev.grid, 0, dy, newShape)
           THEN [prev EXCEPT !.currentPiece.shape = newShape,
                             !.currentPiece.position.y = @ + dy]
           ELSE prev

\* a rotate that turns the matrix of the catalog in place, so that a queued
\* piece of the same kind, which shares it, is turned as well
rotateInPlace(prev, clockwise) ==
  IF prev.currentPiece = nullPiece \/ prev.status # "PLAYING" \/ prev.isFrozen
  THEN prev
  ELSE LET newShape == rotateShape(prev.currentPiece.shape, clockwise)
       IN  IF ~checkCollision(prev.currentPiece, prev.grid, 0, 0, newShape)
           THEN [prev EXCEPT !.currentPiece.shape = newShape,
                             !.nextPiece.shape =
                                IF prev.nextPiece.type = prev.currentPiece.type
                                THEN newShape ELSE @]
           ELSE prev

\* a rotate that accepts the rotated shape without the collision test
rotateUnchecked(prev, clockwise) ==
  IF prev.currentPiece = nullPiece \/ prev.status # "PLAYING" \/ prev.isFrozen
  THEN prev
  ELSE [prev EXCEPT !.currentPiece.shape =
                       rotateShape(prev.currentPiece.shape, clockwise)]

rotate(prev, clockwise) ==
  IF prev.currentPiece = nullPiece \/ prev.status # "PLAYING" \/ prev.isFrozen
  THEN prev
  ELSE LET newShape == rotateShape(prev.currentPiece.shape, clockwise)
       IN  IF ~checkCollision(prev.currentPiece, prev.grid, 0, 0, newShape)
           THEN [prev EXCEPT !.currentPiece.shape = newShape]
           ELSE prev

(***************************************************************************)
(* lockPiece, in its parts: the stamp of the piece into a copy of the      *)
(* grid, the filter of the full rows, the refill at the top, the counters  *)
(* and the spawn of the queued piece.                                      *)
(***************************************************************************)
\* does the piece have an occupied cell on grid cell (gy, gx) (0-based)?
pieceCovers(piece, gy, gx) ==
  LET y == gy - piece.position.y
      x == gx - piece.position.x
  IN  /\ y >= 0 /\ y < Len(piece.shape)
      /\ x >= 0 /\ x < Len(piece.shape[y + 1])
      /\ piece.shape[y + 1][x + 1] # 0

\* newGrid after the forEach: every covered cell at a row >= 0 takes the
\* piece's color.  (A covered cell outside the grid does not occur: every
\* active piece lies inside the field, see the invariants below.)
stampGrid(currentPiece, grid) ==
  tuple([gy \in 1..Len(grid) |->
     tuple([gx \in 1..Len(grid[gy]) |->
        IF pieceCovers(currentPiece, gy - 1, gx - 1) /\ gy - 1 >= 0
        THEN currentPiece.color
        ELSE grid[gy][gx]])])

rowFull(row) == \A i \in 1..Len(row) : row[i] # nullCell

\* a filter that removes the topmost full row only
RECURSIVE filterRowsFirstOnly(_)
filterRowsFirstOnly(g) ==
  IF Len(g) = 0 THEN <<>>
  ELSE IF rowFull(Head(g)) THEN Tail(g)
       ELSE <<Head(g)>> \o filterRowsFirstOnly(Tail(g))

\* newGrid.filter(row => !full)
RECURSIVE filterRows(_)
filterRows(g) ==
  IF Len(g) = 0 THEN <<>>
  ELSE IF rowFull(Head(g)) THEN filterRows(Tail(g))
       ELSE <<Head(g)>> \o filterRows(Tail(g))

\* a refill that pushes the empty rows at the bottom
RECURSIVE refillBelow(_, _)
refillBelow(filteredGrid, config) ==
  IF Len(filteredGrid) < config.height
  THEN refillBelow(filteredGrid \o <<tuple([x \in 1..config.width |-> nullCell])>>, config)
  ELSE filteredGrid

\* while (filteredGrid.length < config.height) unshift(empty row)
RECURSIVE refill(_, _)
refill(filteredGrid, config) ==
  IF Len(filteredGrid) < config.height
  THEN refill(<<tuple([x \in 1..config.width |-> nullCell])>> \o filteredGrid, config)
  ELSE filteredGrid

\* a score that leaves out the level
newScoreFlat(score, clearedLinesCount, level) ==
  score + (IF clearedLinesCount > 0
           THEN (IF clearedLinesCount \in DOMAIN SCORING
                 THEN SCORING[clearedLinesCount] ELSE 0)
           ELSE 0)

\* newScore: the table entry of the rows cleared times the level before
newScore(score, clearedLinesCount, level) ==
  score + (IF clearedLinesCount > 0
           THEN (IF clearedLinesCount \in DOMAIN SCORING
                 THEN SCORING[clearedLinesCount] ELSE 0) * level
           ELSE 0)

\* a level that does not start at 1
newLevelFromZero(newLinesTotal) == newLinesTotal \div 10

newLevel(newLinesTotal) == (newLinesTotal \div 10) + 1

\* a spawn position one row above the field
spawnPosAbove(config) == [x |-> (config.width \div 2) - 2, y |-> -1]

\* a spawn position at the left wall
spawnPosAtWall(config) == [x |-> 0, y |-> 0]

\* spawnPos of lockPiece (the same expression in holdPiece)
spawnPos(config) == [x |-> (config.width \div 2) - 2, y |-> 0]

\* a lock that leaves canHold as it is
lockPieceKeepsCanHold(state, rnd) ==
  LET currentPiece == state.currentPiece
      nextPiece == state.nextPiece
      config == state.config
  IN
  IF currentPiece = nullPiece THEN state
  ELSE
    LET newGrid == stampGrid(currentPiece, state.grid)
        kept == filterRows(newGrid)
        clearedLinesCount == Len(newGrid) - Len(kept)
        filteredGrid == refill(kept, config)
        newLinesTotal == state.lines + clearedLinesCount
        spawned == [nextPiece EXCEPT !.position = spawnPos(config)]
    IN
    IF checkCollision(spawned, filteredGrid, 0, 0, undefined)
    THEN [state EXCEPT !.grid = filteredGrid,
                       !.currentPiece = nullPiece,
                       !.status = "GAME_OVER",
                       !.score = newScore(state.score, clearedLinesCount, state.level),
                       !.isFrozen = FALSE]
    ELSE [state EXCEPT !.grid = filteredGrid,
                       !.currentPiece = spawned,
                       !.nextPiece = getRandomPiece(config.width, rnd),
                       !.isFrozen = FALSE,
                       !.score = newScore(state.score, clearedLinesCount, state.level),
                       !.lines = newLinesTotal,
                       !.level = newLevel(newLinesTotal)]

lockPiece(state, rnd) ==
  LET currentPiece == state.currentPiece
      nextPiece == state.nextPiece
      config == state.config
  IN
  IF currentPiece = nullPiece THEN state
  ELSE
    LET newGrid == stampGrid(currentPiece, state.grid)
        kept == filterRows(newGrid)
        clearedLinesCount == Len(newGrid) - Len(kept)
        filteredGrid == refill(kept, config)
        newLinesTotal == state.lines + clearedLinesCount
        spawned == [nextPiece EXCEPT !.position = spawnPos(config)]
    IN
    IF checkCollision(spawned, filteredGrid, 0, 0, undefined)
    THEN [state EXCEPT !.grid = filteredGrid,
                       !.currentPiece = nullPiece,
                       !.status = "GAME_OVER",
                       !.score = newScore(state.score, clearedLinesCount, state.level),
                       !.isFrozen = FALSE]
    ELSE [state EXCEPT !.grid = filteredGrid,
                       !.currentPiece = spawned,
                       !.nextPiece = getRandomPiece(config.width, rnd),
                       !.canHold = TRUE,
                       !.isFrozen = FALSE,
                       !.score = newScore(state.score, clearedLinesCount, state.level),
                       !.lines = newLinesTotal,
                       !.level = newLevel(newLinesTotal)]

(***************************************************************************)
(* move                                                                    *)
(***************************************************************************)
\* a move that leaves a piece that cannot descend where it is
moveKeepsBlockedPiece(prev, dx, dy, rnd) ==
  IF prev.currentPiece = nullPiece \/ prev.status # "PLAYING" THEN prev
  ELSE IF prev.isFrozen /\ dy # 0 THEN prev
  ELSE IF ~checkCollision(prev.currentPiece, prev.grid, dx, dy, undefined)
       THEN [prev EXCEPT !.currentPiece.position =
                            [x |-> prev.currentPiece.position.x + dx,
                             y |-> prev.currentPiece.position.y + dy]]
       ELSE prev

\* a move that locks the piece on any blocked step, sideways too
moveLocksSideways(prev, dx, dy, rnd) ==
  IF prev.currentPiece = nullPiece \/ prev.status # "PLAYING" THEN prev
  ELSE IF prev.isFrozen /\ dy # 0 THEN prev
  ELSE IF ~checkCollision(prev.currentPiece, prev.grid, dx, dy, undefined)
       THEN [prev EXCEPT !.currentPiece.position =
                            [x |-> prev.currentPiece.position.x + dx,
                             y |-> prev.currentPiece.position.y + dy]]
       ELSE lockPiece(prev, rnd)

move(prev, dx, dy, rnd) ==
  IF prev.currentPiece = nullPiece \/ prev.status # "PLAYING" THEN prev
  ELSE IF prev.isFrozen /\ dy # 0 THEN prev
  ELSE IF ~checkCollision(prev.currentPiece, prev.grid, dx, dy, undefined)
       THEN [prev EXCEPT !.currentPiece.position =
                            [x |-> prev.currentPiece.position.x + dx,
                             y |-> prev.currentPiece.position.y + dy]]
       ELSE IF dy > 0 THEN lockPiece(prev, rnd)
            ELSE prev

(***************************************************************************)
(* hardDrop                                                                *)
(***************************************************************************)
\* a loop that probes dropY instead of dropY + 1
RECURSIVE dropDistanceOver(_, _, _)
dropDistanceOver(piece, grid, dropY) ==
  IF ~checkCollision(piece, grid, 0, dropY, undefined)
  THEN dropDistanceOver(piece, grid, dropY + 1)
  ELSE dropY

\* the while loop: the first dropY whose successor collides
RECURSIVE dropDistance(_, _, _)
dropDistance(piece, grid, dropY) ==
  IF ~checkCollision(piece, grid, 0, dropY + 1, undefined)
  THEN dropDistance(piece, grid, dropY + 1)
  ELSE dropY

hardDrop(prev, rnd) ==
  IF prev.currentPiece = nullPiece \/ prev.status # "PLAYING" THEN prev
  ELSE LET dropY == dropDistance(prev.currentPiece, prev.grid, 0)
           droppedPiece ==
             [prev.currentPiece EXCEPT
                !.position = [x |-> prev.currentPiece.position.x,
                              y |-> prev.currentPiece.position.y + dropY]]
       IN  lockPiece([prev EXCEPT !.currentPiece = droppedPiece], rnd)

(***************************************************************************)
(* holdPiece                                                               *)
(***************************************************************************)
\* a hold that leaves canHold set
holdPieceAgain(prev, rnd) ==
  IF prev.currentPiece = nullPiece \/ ~prev.canHold \/ prev.status # "PLAYING"
  THEN prev
  ELSE
    LET newHeldType == prev.currentPiece.type
        newHeldPiece == [type     |-> newHeldType,
                         shape    |-> TETROMINOES[newHeldType].shape,
                         color    |-> TETROMINOES[newHeldType].color,
                         position |-> [x |-> 0, y |-> 0]]
    IN
    IF prev.heldPiece = nullPiece
    THEN [prev EXCEPT !.heldPiece = newHeldPiece,
                      !.currentPiece = [prev.nextPiece EXCEPT !.position = spawnPos(prev.config)],
                      !.nextPiece = getRandomPiece(prev.config.width, rnd),
                      !.canHold = TRUE]
    ELSE
      LET heldType == prev.heldPiece.type
          nextFromHold == [type     |-> heldType,
                           shape    |-> TETROMINOES[heldType].shape,
                           color    |-> TETROMINOES[heldType].color,
                           position |-> spawnPos(prev.config)]
      IN  [prev EXCEPT !.heldPiece = newHeldPiece,
                       !.currentPiece = nextFromHold,
                       !.canHold = TRUE]

\* a hold that, with nothing held yet, leaves no piece active
holdPieceEmptiesActive(prev, rnd) ==
  IF prev.currentPiece = nullPiece \/ ~prev.canHold \/ prev.status # "PLAYING"
  THEN prev
  ELSE
    LET newHeldType == prev.currentPiece.type
        newHeldPiece == [type     |-> newHeldType,
                         shape    |-> TETROMINOES[newHeldType].shape,
                         color    |-> TETROMINOES[newHeldType].color,
                         position |-> [x |-> 0, y |-> 0]]
    IN
    IF prev.heldPiece = nullPiece
    THEN [prev EXCEPT !.heldPiece = newHeldPiece,
                      !.currentPiece = prev.heldPiece,
                      !.canHold = FALSE]
    ELSE
      LET heldType == prev.heldPiece.type
          nextFromHold == [type     |-> heldType,
                           shape    |-> TETROMINOES[heldType].shape,
                           color    |-> TETROMINOES[heldType].color,
                           position |-> spawnPos(prev.config)]
      IN  [prev EXCEPT !.heldPiece = newHeldPiece,
                       !.currentPiece = nextFromHold,
                       !.canHold = FALSE]

\* a hold that stores the piece as it is turned
holdPieceAsTurned(prev, rnd) ==
  IF prev.currentPiece = nullPiece \/ ~prev.canHold \/ prev.status # "PLAYING"
  THEN prev
  ELSE
    LET newHeldPiece == [prev.currentPiece EXCEPT !.position = [x |-> 0, y |-> 0]]
    IN
    IF prev.heldPiece = nullPiece
    THEN [prev EXCEPT !.heldPiece = newHeldPiece,
                      !.currentPiece = [prev.nextPiece EXCEPT !.position = spawnPos(prev.config)],
                      !.nextPiece = getRandomPiece(prev.config.width, rnd),
                      !.canHold = FALSE]
    ELSE [prev EXCEPT !.heldPiece = newHeldPiece,
                      !.currentPiece = [prev.heldPiece EXCEPT !.position = spawnPos(prev.config)],
                      !.canHold = FALSE]

holdPiece(prev, rnd) ==
  IF prev.currentPiece = nullPiece \/ ~prev.canHold \/ prev.status # "PLAYING"
  THEN prev
  ELSE
    LET newHeldType == prev.currentPiece.type
        newHeldPiece == [type     |-> newHeldType,
                         shape    |-> TETROMINOES[newHeldType].shape,
                         color    |-> TETROMINOES[newHeldType].color,
                         position |-> [x |-> 0, y |-> 0]]
    IN
    IF prev.heldPiece = nullPiece
    THEN [prev EXCEPT !.heldPiece = newHeldPiece,
                      !.currentPiece = [prev.nextPiece EXCEPT !.position = spawnPos(prev.config)],
                      !.nextPiece = getRandomPiece(prev.config.width, rnd),
                      !.canHold = FALSE]
    ELSE
      LET heldType == prev.heldPiece.type
          nextFromHold == [type     |-> heldType,
                           shape    |-> TETROMINOES[heldType].shape,
                           color    |-> TETROMINOES[heldType].color,
                           position |-> spawnPos(prev.config)]
      IN  [prev EXCEPT !.heldPiece = newHeldPiece,
                       !.currentPiece = nextFromHold,
                       !.canHold = FALSE]

(***************************************************************************)
(* startGame: the two draws of Math.random() are p1 and p2.                *)
(***************************************************************************)
\* a start that keeps the score of the session before
startGameKeepsScore(prev, p1, p2) ==
  LET initialWidth == INITIAL_WIDTH
  IN  [prev EXCEPT
         !.grid = emptyGrid(initialWidth, INITIAL_HEIGHT),
         !.currentPiece =
            [getRandomPiece(initialWidth, p1) EXCEPT
               !.position = [x |-> (initialWidth \div 2) - 2, y |-> 0]],
         !.nextPiece = getRandomPiece(initialWidth, p2),
         !.status = "PLAYING",
         !.lines = 0,
         !.level = 1,
         !.isFrozen = FALSE,
         !.heldPiece = nullPiece,
         !.canHold = TRUE]

startGame(prev, p1, p2) ==
  LET initialWidth == INITIAL_WIDTH
  IN  [prev EXCEPT
         !.grid = emptyGrid(initialWidth, INITIAL_HEIGHT),
         !.currentPiece =
            [getRandomPiece(initialWidth, p1) EXCEPT
               !.position = [x |-> (initialWidth \div 2) - 2, y |-> 0]],
         !.nextPiece = getRandomPiece(initialWidth, p2),
         !.status = "PLAYING",
         !.score = 0,
         !.lines = 0,
         !.level = 1,
         !.isFrozen = FALSE,
         !.heldPiece = nullPiece,
         !.canHold = TRUE]

(***************************************************************************)
(* The state built by useState at construction.                            *)
(***************************************************************************)
initialState ==
  [grid         |-> emptyGrid(INITIAL_WIDTH, INITIAL_HEIGHT),
   currentPiece |-> nullPiece,
   nextPiece    |-> [type |-> "I",
                     shape |-> TETROMINOES["I"].shape,
                     color |-> TETROMINOES["I"].color,
                     position |-> [x |-> 0, y |-> 0]],
   heldPiece    |-> nullPiece,
   canHold      |-> TRUE,
   isFrozen     |-> FALSE,
   score        |-> 0,
   lines        |-> 0,
   level        |-> 1,
   status       |-> "IDLE",
   config       |-> [width |-> INITIAL_WIDTH, height |-> INITIAL_HEIGHT,
                     baseSpeed |-> 500]]

(***************************************************************************)
(* Intents and their replay.  An intent names a handler and its inputs;    *)
(* apply runs the handler on a session state.                              *)
(***************************************************************************)
Intent(name, a, b, k1, k2) == [name |-> name, a |-> a, b |-> b, k1 |-> k1, k2 |-> k2]

apply(s, i) ==
  CASE i.name = "start"    -> startGame(s, i.k1, i.k2)
    [] i.name = "move"     -> move(s, i.a, i.b, i.k1)
    [] i.name = "rotate"   -> rotate(s, i.a = 1)
    [] i.name = "hardDrop" -> hardDrop(s, i.k1)
    [] i.name = "hold"     -> holdPiece(s, i.k1)
    [] i.name = "freeze"   -> toggleFreeze(s)

RECURSIVE run(_, _)
run(s, script) ==
  IF Len(script) = 0 THEN s
  ELSE LET t == apply(s, Head(script))
       IN  \* (the test makes each state be computed before the next intent)
           IF t.status \notin Status THEN t ELSE run(t, Tail(script))

\* n copies of one intent
Rep(n, i) == [j \in 1..n |-> i]

\* the intents that steer the active piece: r clockwise rotations, then n
\* lateral moves of dx
Steer(r, dx, n) == Rep(r, Intent("rotate", 1, 0, "I", "I")) \o Rep(n, Intent("move", dx, 0, "I", "I"))

\* one piece of a scripted session: its kind and how it is steered before
\* the hard drop
Placement(kind, r, dx, n) == [kind |-> kind, r |-> r, dx |-> dx, n |-> n]

\* the intents of a scripted session: start with the first two kinds, then
\* steer and hard-drop each piece; the kind drawn at the lock of piece i is
\* that of piece i + 2 (tail gives the two kinds after the last placement)
RECURSIVE drops(_, _, _)
drops(ps, kinds, i) ==
  IF i > Len(ps) THEN <<>>
  ELSE Steer(ps[i].r, ps[i].dx, ps[i].n)
       \o <<Intent("hardDrop", 0, 0, kinds[i + 2], "I")>>
       \o drops(ps, kinds, i + 1)

\* the intents that continue a session whose active and queued pieces are
\* the first two of ps
more(ps, tail) == drops(ps, [i \in 1..Len(ps) |-> ps[i].kind] \o tail, 1)

session(ps, tail) ==
  <<Intent("start", 0, 0, (ps \o tail)[1].kind, (ps \o tail)[2].kind)>>
  \o more(ps, [i \in 1..Len(tail) |-> tail[i].kind])

\* a piece that is only queued
Queued(kind) == Placement(kind, 0, 0, 0)

(***************************************************************************)
(* Scripted sessions of src/App.tsx (every piece spawns at column 3).      *)
(***************************************************************************)
\* n rows of flat I pieces in columns 0..7
flatRows(n) == Rep(n, Placement("I", 0, -1, 3)) \o Rep(n, Placement("I", 0, 1, 1))

\* ten I pieces per four rows: eight flat ones in columns 0..7, an upright
\* one in column 8, an upright one in column 9 (which clears the four rows)
tetrisLess == flatRows(4) \o <<Placement("I", 1, 1, 3)>>

tetris == tetrisLess \o <<Placement("I", 1, 1, 4)>>

\* the sessions after 1..5 such clears (4, 8, .., 20 lines), I pieces active
\* and queued
lines4 == run(initialState, session(tetris, <<Queued("I"), Queued("I")>>))

lines8 == run(lines4, more(tetris, <<"I", "I">>))

lines12 == run(lines8, more(tetris, <<"I", "I">>))

lines16 == run(lines12, more(tetris, <<"I", "I">>))

lines20 == run(lines16, more(tetris, <<"I", "I">>))

\* a spire in column 6 up to row 0 above a bottom row that lacks columns 0..1
spire == <<Placement("I", 1, 1, 2), Placement("I", 1, 1, 3), Placement("I", 1, 1, 4),
           Placement("I", 0, -1, 1)>>
         \o Rep(5, Placement("I", 1, 1, 1))

\* columns 5..6 filled to the top by O pieces
wall == Rep(10, Placement("O", 0, 1, 2))

\* the states the explorations start from: the constructed state and states
\* reached by the scripted sessions
SnapApp ==
  { initialState,
    \* a well in column 9 beside four rows, an upright I above it
    run(initialState, session(tetrisLess, <<Queued("I"), Queued("O")>>) \o Steer(1, 1, 4)),
    \* 8 lines, two rows lacking columns 8..9, an O above them
    run(lines8, more(flatRows(2), <<"O", "T">>) \o Steer(0, 1, 5)),
    \* 20 lines, three rows lacking column 9, an upright I above it
    run(lines20, more(flatRows(3) \o <<Placement("I", 1, 1, 3)>>, <<"I", "L">>)
                 \o Steer(1, 1, 4)),
    \* 20 lines, two rows lacking columns 8..9, an O above them
    run(lines20, more(flatRows(2), <<"O", "S">>) \o Steer(0, 1, 5)),
    \* the spire, an O above the gap of the bottom row, an I queued
    run(initialState, session(spire, <<Queued("O"), Queued("I")>>) \o Steer(0, -1, 3)),
    \* the wall, an O at the spawn position, an I queued
    run(initialState, session(wall, <<Queued("O"), Queued("I")>>)),
    \* a T held on an empty grid, an L active, an S queued
    run(initialState, session(<<>>, <<Queued("T"), Queued("L")>>)
                      \o <<Intent("hold", 0, 0, "S", "I")>>),
    \* the wall, the O held, the I locked at the top: the game is over
    run(initialState, session(wall, <<Queued("O"), Queued("I")>>)
                      \o <<Intent("hold", 0, 0, "I", "I"),
                           Intent("hardDrop", 0, 0, "I", "I")>>),
    \* a flat I on the floor, a T that rests on it, a J queued
    run(initialState, session(<<Placement("I", 0, 0, 0)>>, <<Queued("T"), Queued("J")>>)
                      \o Rep(17, Intent("move", 0, 1, "I", "I"))) }

(***************************************************************************)
(* The revision in src/constants.ts.  checkCollision, toggleFreeze and     *)
(* rotate are the same text in both revisions.                             *)
(***************************************************************************)
getRandomPieceF(width, type) ==
  [type     |-> type,
   shape    |-> TETROMINOES[type].shape,
   color    |-> TETROMINOES[type].color,
   position |-> [x |-> (width \div 2) - (Len(TETROMINOES[type].shape[1]) \div 2),
                 y |-> 0]]

\* a stop that leaves the active piece in place
stopGameKeepsPiece(prev) ==
  [prev EXCEPT !.status = "IDLE",
               !.isFrozen = FALSE,
               !.score = 0,
               !.lines = 0,
               !.level = 1]

stopGame(prev) ==
  [prev EXCEPT !.status = "IDLE",
               !.currentPiece = nullPiece,
               !.isFrozen = FALSE,
               !.score = 0,
               !.lines = 0,
               !.level = 1]

\* the stamp of this revision: rows within [0, config.height)
stampGridF(currentPiece, grid, config) ==
  tuple([gy \in 1..Len(grid) |->
     tuple([gx \in 1..Len(grid[gy]) |->
        IF pieceCovers(currentPiece, gy - 1, gx - 1)
           /\ gy - 1 >= 0 /\ gy - 1 < config.height
        THEN currentPiece.color
        ELSE grid[gy][gx]])])

lockPieceF(state, rnd) ==
  LET currentPiece == state.currentPiece
      nextPiece == state.nextPiece
      config == state.config
  IN
  IF currentPiece = nullPiece THEN state
  ELSE
    LET newGrid == stampGridF(currentPiece, state.grid, config)
        kept == filterRows(newGrid)
        clearedLinesCount == Len(newGrid) - Len(kept)
        filteredGrid == refill(kept, config)
        newLinesTotal == state.lines + clearedLinesCount
        nextToSpawn ==
          [nextPiece EXCEPT
             !.position = [x |-> (config.width \div 2) - (Len(nextPiece.shape[1]) \div 2),
                           y |-> 0]]
    IN
    IF checkCollision(nextToSpawn, filteredGrid, 0, 0, undefined)
    THEN [state EXCEPT !.grid = filteredGrid,
                       !.currentPiece = nullPiece,
                       !.status = "GAME_OVER",
                       !.score = newScore(state.score, clearedLinesCount, state.level),
                       !.lines = newLinesTotal,
                       !.isFrozen = FALSE]
    ELSE [state EXCEPT !.grid = filteredGrid,
                       !.currentPiece = nextToSpawn,
                       !.nextPiece = getRandomPieceF(config.width, rnd),
                       !.canHold = TRUE,
                       !.isFrozen = FALSE,
                       !.score = newScore(state.score, clearedLinesCount, state.level),
                       !.lines = newLinesTotal,
                       !.level = newLevel(newLinesTotal)]

moveF(prev, dx, dy, rnd) ==
  IF prev.currentPiece = nullPiece \/ prev.status # "PLAYING" THEN prev
  ELSE IF prev.isFrozen /\ dy # 0 THEN prev
  ELSE IF ~checkCollision(prev.currentPiece, prev.grid, dx, dy, undefined)
       THEN [prev EXCEPT !.currentPiece.position =
                            [x |-> prev.currentPiece.position.x + dx,
                             y |-> prev.currentPiece.position.y + dy]]
       ELSE IF dy > 0 THEN lockPieceF(prev, rnd)
            ELSE prev

hardDropF(prev, rnd) ==
  IF prev.currentPiece = nullPiece \/ prev.status # "PLAYING" THEN prev
  ELSE LET dropY == dropDistance(prev.currentPiece, prev.grid, 0)
           droppedPiece ==
             [prev.currentPiece EXCEPT
                !.position = [x |-> prev.currentPiece.position.x,
                              y |-> prev.currentPiece.position.y + dropY]]
       IN  lockPieceF([prev EXCEPT !.currentPiece = droppedPiece], rnd)

\* a loop that stops as soon as the second column ahead collides
RECURSIVE endDistanceShort(_, _, _, _)
endDistanceShort(piece, grid, dx, finalDx) ==
  IF /\ ~checkCollision(piece, grid, finalDx + dx, 0, undefined)
     /\ ~checkCollision(piece, grid, finalDx + dx + dx, 0, undefined)
  THEN endDistanceShort(piece, grid, dx, finalDx + dx)
  ELSE finalDx

\* the while loop of moveToEnd: the first finalDx whose successor collides
RECURSIVE endDistance(_, _, _, _)
endDistance(piece, grid, dx, finalDx) ==
  IF ~checkCollision(piece, grid, finalDx + dx, 0, undefined)
  THEN endDistance(piece, grid, dx, finalDx + dx)
  ELSE finalDx

moveToEnd(prev, dx) ==
  IF prev.currentPiece = nullPiece \/ prev.status # "PLAYING" \/ prev.isFrozen
  THEN prev
  ELSE LET finalDx == endDistance(prev.currentPiece, prev.grid, dx, 0)
       IN  [prev EXCEPT !.currentPiece.position.x =
                           prev.currentPiece.position.x + finalDx]

\* a reconfigure that leaves the grid as it is
updateConfigKeepsGrid(prev, dim, val) ==
  [prev EXCEPT !.config = [prev.config EXCEPT ![dim] = val]]

updateConfig(prev, dim, val) ==
  [prev EXCEPT
     !.config = [prev.config EXCEPT ![dim] = val],
     !.grid = IF dim = "width" \/ dim = "height"
              THEN emptyGrid(IF dim = "width" THEN val ELSE prev.config.width,
                             IF dim = "height" THEN val ELSE prev.config.height)
              ELSE prev.grid]

\* a start that builds the field at the initial width
startGameFInitialWidth(prev, k1, k2) ==
  LET width == prev.config.width
      height == prev.config.height
      p1 == getRandomPieceF(width, k1)
      p2 == getRandomPieceF(width, k2)
  IN  [prev EXCEPT
         !.grid = emptyGrid(INITIAL_WIDTH, height),
         !.currentPiece =
            [p1 EXCEPT !.position =
                          [x |-> (width \div 2) - (Len(p1.shape[1]) \div 2), y |-> 0]],
         !.nextPiece = p2,
         !.status = "PLAYING",
         !.score = 0,
         !.lines = 0,
         !.level = 1,
         !.isFrozen = FALSE,
         !.heldPiece = nullPiece,
         !.canHold = TRUE]

\* startGame reads the configuration of the rendered state
startGameF(prev, k1, k2) ==
  LET width == prev.config.width
      height == prev.config.height
      p1 == getRandomPieceF(width, k1)
      p2 == getRandomPieceF(width, k2)
  IN  [prev EXCEPT
         !.grid = emptyGrid(width, height),
         !.currentPiece =
            [p1 EXCEPT !.position =
                          [x |-> (width \div 2) - (Len(p1.shape[1]) \div 2), y |-> 0]],
         !.nextPiece = p2,
         !.status = "PLAYING",
         !.score = 0,
         !.lines = 0,
         !.level = 1,
         !.isFrozen = FALSE,
         !.heldPiece = nullPiece,
         !.canHold = TRUE]

applyF(s, i) ==
  CASE i.name = "start"     -> startGameF(s, i.k1, i.k2)
    [] i.name = "move"      -> moveF(s, i.a, i.b, i.k1)
    [] i.name = "rotate"    -> rotate(s, i.a = 1)
    [] i.name = "hardDrop"  -> hardDropF(s, i.k1)
    [] i.name = "moveToEnd" -> moveToEnd(s, i.a)
    [] i.name = "freeze"    -> toggleFreeze(s)
    [] i.name = "stop"      -> stopGame(s)
    [] i.name = "width"     -> updateConfig(s, "width", i.a)
    [] i.name = "baseSpeed" -> updateConfig(s, "baseSpeed", i.a)

RECURSIVE runF(_, _)
runF(s, script) ==
  IF Len(script) = 0 THEN s
  ELSE LET t == applyF(s, Head(script))
       IN  IF t.status \notin Status THEN t ELSE runF(t, Tail(script))

(***************************************************************************)
(* What surrounds the session state: the gravity interval (gameLoop is     *)
(* TRUE while an interval is armed) and the coach (its displayed comment,  *)
(* the commentary requests in flight in the order they were issued, and    *)
(* the number of requests issued so far).  The two effects run after the   *)
(* render of every state whose dependencies differ from the one before.    *)
(***************************************************************************)
\* a gravity effect that does not look at isFrozen
gravityEffectUnfrozen(prev, next, armed) ==
  IF \/ next.status # prev.status
     \/ next.level # prev.level
     \/ next.config.baseSpeed # prev.config.baseSpeed
     \/ next.isFrozen # prev.isFrozen
  THEN next.status = "PLAYING"
  ELSE armed

\* the gravity effect: when a dependency has changed, the cleanup clears the
\* interval and the effect arms a new one if PLAYING and not frozen
gravityEffect(prev, next, armed) ==
  IF \/ next.status # prev.status
     \/ next.level # prev.level
     \/ next.config.baseSpeed # prev.config.baseSpeed
     \/ next.isFrozen # prev.isFrozen
  THEN next.status = "PLAYING" /\ ~next.isFrozen
  ELSE armed

\* the gravity effect at mount
gravityAtMount(s) == s.status = "PLAYING" /\ ~s.isFrozen

\* useState of coachComment, in src/App.tsx and in src/constants.ts
initialComment == "Neural Link calibrated. Proceed with caution."

initialCommentF == "System Ready. Calibrate field dimensions to begin."

stoppedComment == "Session terminated. Awaiting new calibration."

fallbackComment == "Keep stacking those bytes, runner."

\* the commentary effect of src/App.tsx: when status or level has changed
\* and the status is PLAYING or GAME_OVER, a request with the counters of the
\* rendered state is issued; nothing is done about the requests in flight
commentaryEffect(prev, next, c) ==
  IF /\ next.status # prev.status \/ next.level # prev.level
     /\ next.status \in {"PLAYING", "GAME_OVER"}
  THEN [c EXCEPT !.issued = @ + 1,
                 !.inflight = Append(@, [id |-> c.issued + 1,
                                         score |-> next.score,
                                         lines |-> next.lines,
                                         level |-> next.level,
                                         status |-> next.status])]
  ELSE c

\* how a request ends: the model answers with a text, with no text, or the
\* call throws
Outcomes == {"text", "empty", "error"}

\* a text the model gives for a request (it stands for any non-empty text;
\* it names the request so that replies can be told apart)
replyText(f) == "re " \o f.status \o " #" \o ToString(f.id)

\* a getCommentary without the fallback for a missing text
getCommentaryNoFallback(f, outcome) ==
  CASE outcome = "text"  -> replyText(f)
    [] outcome = "empty" -> ""
    [] outcome = "error" -> fallbackComment

\* GeminiCoachService.getCommentary
getCommentary(f, outcome) ==
  CASE outcome = "text"  -> replyText(f)
    [] outcome = "empty" -> fallbackComment
    [] outcome = "error" -> fallbackComment

\* the i-th element removed
without(q, i) == SubSeq(q, 1, i - 1) \o SubSeq(q, i + 1, Len(q))

\* a fetchComment that drops the result when a later request was issued
fetchCommentLatestOnly(c, i, outcome) ==
  [c EXCEPT !.comment = IF c.inflight[i].id = c.issued
                        THEN getCommentary(c.inflight[i], outcome)
                        ELSE c.comment,
            !.inflight = without(c.inflight, i)]

\* the continuation of fetchComment after the await, for the i-th request
\* in flight: setCoachComment(comment)
fetchComment(c, i, outcome) ==
  [c EXCEPT !.comment = getCommentary(c.inflight[i], outcome),
            !.inflight = without(c.inflight, i)]

\* the coach of a session of src/App.tsx in which every request issued so
\* far has ended, the last of them without a text
coachAfter(s) ==
  [comment  |-> IF s = initialState THEN initialComment ELSE fallbackComment,
   inflight |-> <<>>,
   issued   |-> 0]

\* the coach of src/constants.ts, which issues no request
coachF == [comment |-> initialCommentF, inflight |-> <<>>, issued |-> 0]

(***************************************************************************)
(* The session of src/App.tsx as a state machine.  op records the handler  *)
(* of the last step and its inputs, steps counts the handlers run.         *)
(***************************************************************************)
\* what op records of a step: the handler, its arguments (not the kinds
\* drawn by Math.random()), the status it was called in and whether it
\* returned a state other than prev
Called(i, from, changed) ==
  [name |-> i.name, a |-> i.a, b |-> i.b, from |-> from, changed |-> changed]

noOp == [name |-> "none", a |-> 0, b |-> 0, from |-> "none", changed |-> FALSE]

InitApp ==
  /\ revision = "App.tsx"
  /\ gameState \in SnapApp
  /\ op = noOp
  /\ steps = 0
  /\ probe = noOp
  /\ gameLoop = gravityAtMount(gameState)
  /\ coach = coachAfter(gameState)
  /\ pending = <<>>

Step(i) ==
  /\ revision = "App.tsx"
  /\ steps < MaxSteps
  /\ gameState' = apply(gameState, i)
  /\ gameLoop' = gravityEffect(gameState, gameState', gameLoop)
  /\ coach' = commentaryEffect(gameState, gameState', coach)
  /\ op' = Called(i, gameState.status, gameState' # gameState)
  /\ steps' = steps + 1
  /\ UNCHANGED <<probe, revision, pending>>

\* the start button is rendered only while status is not PLAYING
StartGame ==
  /\ gameState.status # "PLAYING"
  /\ \E p1 \in Kinds, p2 \in Kinds : Step(Intent("start", 0, 0, p1, p2))

\* ArrowLeft, ArrowRight
MoveLateral == \E dx \in {-1, 1} : Step(Intent("move", dx, 0, "I", "I"))

\* ArrowDown and the interval callback; rnd is the kind drawn if it locks
MoveDown == \E rnd \in Kinds : Step(Intent("move", 0, 1, rnd, "I"))

Rotate == \E cw \in {0, 1} : Step(Intent("rotate", cw, 0, "I", "I"))

HardDrop == \E rnd \in Kinds : Step(Intent("hardDrop", 0, 0, rnd, "I"))

HoldPiece == \E rnd \in Kinds : Step(Intent("hold", 0, 0, rnd, "I"))

ToggleFreeze == Step(Intent("freeze", 0, 0, "I", "I"))

\* a request in flight ends, whichever it is, and its comment is displayed;
\* op records the id of the request and how it ended
Resolve ==
  /\ revision = "App.tsx"
  /\ \E i \in 1..Len(coach.inflight), outcome \in Outcomes :
       /\ coach' = fetchComment(coach, i, outcome)
       /\ op' = [name |-> "resolve", a |-> coach.inflight[i].id, b |-> 0,
                 from |-> outcome, changed |-> FALSE]
  /\ UNCHANGED <<gameState, steps, probe, revision, gameLoop, pending>>

NextApp ==
  \/ StartGame
  \/ MoveLateral
  \/ MoveDown
  \/ Rotate
  \/ HardDrop
  \/ HoldPiece
  \/ ToggleFreeze

SpecApp == InitApp /\ [][NextApp]_vars

(***************************************************************************)
(* The session of src/App.tsx together with the replies of its coach,      *)
(* which arrive at any time and in any order.  A reply writes coachComment *)
(* only (C27), which is why the sessions are otherwise explored without    *)
(* the arrivals.  The explorations start from the constructed state and    *)
(* from the states in which a hard drop changes the status or the level,   *)
(* so that a request is one step away.                                     *)
(***************************************************************************)
SnapCoach ==
  { s \in SnapApp :
      \/ s = initialState
      \/ \E t \in {hardDrop(s, "I")} : t.status # s.status \/ t.level # s.level }

InitCoach ==
  /\ InitApp
  /\ gameState \in SnapCoach

NextCoach == Resolve \/ NextApp

SpecCoach == InitCoach /\ [][NextCoach]_vars

(***************************************************************************)
(* The session of src/constants.ts as a state machine.                     *)
(***************************************************************************)
\* values of the two range inputs (width: 6..20 step 1; baseSpeed: 100..1000
\* step 50), among them their ends
WidthInputs == {6, 7, 10, 20}

SpeedInputs == {100, 500, 1000}

sessionF(ps, tail) == session(ps, tail)

\* scripted sessions of this revision (I spawns at column 3, O at column 4)
lines4F == runF(initialState, sessionF(tetris, <<Queued("I"), Queued("I")>>))

lines8F == runF(lines4F, more(tetris, <<"I", "I">>))

SnapF ==
  { initialState,
    \* a well in column 9 beside four rows, an upright I above it
    runF(initialState, sessionF(tetrisLess, <<Queued("I"), Queued("O")>>) \o Steer(1, 1, 4)),
    \* 8 lines, two rows lacking columns 8..9, an O above them
    runF(lines8F, more(flatRows(2), <<"O", "T">>) \o Steer(0, 1, 4)),
    \* the spire, an O above the gap of the bottom row, an I queued
    runF(initialState, sessionF(spire, <<Queued("O"), Queued("I")>>) \o Steer(0, -1, 4)),
    \* a field of width 6: two flat I pieces in columns 0..3, an O above
    \* columns 4..5, a T queued
    runF(initialState,
         <<Intent("width", 6, 0, "I", "I")>>
         \o sessionF(Rep(2, Placement("I", 0, -1, 1)), <<Queued("O"), Queued("T")>>)
         \o Steer(0, 1, 2)) }

InitF ==
  /\ revision = "constants.ts"
  /\ gameState \in SnapF
  /\ op = noOp
  /\ steps = 0
  /\ probe = noOp
  /\ gameLoop = gravityAtMount(gameState)
  /\ coach = coachF
  /\ pending = <<>>

StepF(i) ==
  /\ revision = "constants.ts"
  /\ steps < MaxSteps
  /\ gameState' = applyF(gameState, i)
  /\ gameLoop' = gravityEffect(gameState, gameState', gameLoop)
  /\ coach' = IF i.name = "stop" THEN [coach EXCEPT !.comment = stoppedComment]
                                 ELSE coach
  /\ op' = Called(i, gameState.status, gameState' # gameState)
  /\ steps' = steps + 1
  /\ UNCHANGED <<probe, revision, pending>>

\* the start button is rendered only while status is IDLE
StartGameF ==
  /\ gameState.status = "IDLE"
  /\ \E p1 \in Kinds, p2 \in Kinds : StepF(Intent("start", 0, 0, p1, p2))

\* the stop button is enabled while PLAYING or GAME_OVER (Escape: PLAYING)
StopGame ==
  /\ gameState.status \in {"PLAYING", "GAME_OVER"}
  /\ StepF(Intent("stop", 0, 0, "I", "I"))

\* range inputs that are rendered whatever the status
UpdateConfigAnytime ==
  \/ \E w \in WidthInputs : StepF(Intent("width", w, 0, "I", "I"))
  \/ \E v \in SpeedInputs : StepF(Intent("baseSpeed", v, 0, "I", "I"))

\* the range inputs are rendered only while status is IDLE
UpdateConfig ==
  /\ gameState.status = "IDLE"
  /\ \/ \E w \in WidthInputs : StepF(Intent("width", w, 0, "I", "I"))
     \/ \E v \in SpeedInputs : StepF(Intent("baseSpeed", v, 0, "I", "I"))

MoveLateralF == \E dx \in {-1, 1} : StepF(Intent("move", dx, 0, "I", "I"))

MoveDownF == \E rnd \in Kinds : StepF(Intent("move", 0, 1, rnd, "I"))

RotateF == \E cw \in {0, 1} : StepF(Intent("rotate", cw, 0, "I", "I"))

HardDropF == \E rnd \in Kinds : StepF(Intent("hardDrop", 0, 0, rnd, "I"))

MoveToEnd == \E dx \in {-1, 1} : StepF(Intent("moveToEnd", dx, 0, "I", "I"))

ToggleFreezeF == StepF(Intent("freeze", 0, 0, "I", "I"))

NextF ==
  \/ StartGameF
  \/ StopGame
  \/ UpdateConfig
  \/ MoveLateralF
  \/ MoveDownF
  \/ RotateF
  \/ HardDropF
  \/ MoveToEnd
  \/ ToggleFreezeF

SpecF == InitF /\ [][NextF]_vars

(***************************************************************************)
(* Both revisions: a behaviour is a behaviour of either.                   *)
(***************************************************************************)
Init == InitApp \/ InitF

Next == NextApp \/ NextF

Spec == Init /\ [][Next]_vars

(***************************************************************************)
(* checkCollision as a function of its arguments: the grid and the piece   *)
(* are those of a scripted session or a piece of any kind as generated,    *)
(* the offsets and the override shape are drawn from the sets below.       *)
(***************************************************************************)
ProbeDX == -4..6

ProbeDY == {-3, -2, -1, 0, 1, 17, 18, 19}

InitCollision ==
  /\ revision = "App.tsx"
  /\ gameState \in {s \in SnapApp \cup SnapF : s.currentPiece # nullPiece}
  /\ op = noOp
  /\ steps = 0
  /\ probe = noOp
  /\ gameLoop = gravityAtMount(gameState)
  /\ coach = coachAfter(gameState)
  /\ pending = <<>>

Probe ==
  /\ probe = noOp
  /\ \E piece \in {gameState.currentPiece}
               \cup {getRandomPiece(gameState.config.width, k) : k \in Kinds},
        moveX \in ProbeDX, moveY \in ProbeDY :
       \E newShape \in {undefined, rotateShape(piece.shape, TRUE),
                        rotateShape(piece.shape, FALSE)} :
          /\ probe' = [name |-> "checkCollision", piece |-> piece,
                       moveX |-> moveX, moveY |-> moveY, newShape |-> newShape,
                       result |-> checkCollision(piece, gameState.grid,
                                                 moveX, moveY, newShape)]
          /\ UNCHANGED <<gameState, op, steps, revision, gameLoop, coach, pending>>

SpecCollision == InitCollision /\ [][Probe]_vars

(***************************************************************************)
(* The rotation transform as a function of the shape: a piece of a kind of *)
(* the catalog is turned in place, clockwise or counter-clockwise, up to   *)
(* MaxTurns times; probe holds the kind, the shape and the turns made.     *)
(***************************************************************************)
MaxTurns == 4

InitRotation ==
  /\ revision = "App.tsx"
  /\ gameState = initialState
  /\ op = noOp
  /\ steps = 0
  /\ gameLoop = gravityAtMount(gameState)
  /\ coach = coachAfter(gameState)
  /\ pending = <<>>
  /\ \E k \in Kinds :
       probe = [name |-> "rotateShape", kind |-> k,
                shape |-> TETROMINOES[k].shape, turns |-> <<>>]

Turn ==
  /\ probe.name = "rotateShape"
  /\ Len(probe.turns) < MaxTurns
  /\ \E clockwise \in BOOLEAN :
       probe' = [probe EXCEPT !.shape = rotateShape(@, clockwise),
                              !.turns = Append(@, clockwise)]
  /\ UNCHANGED <<gameState, op, steps, revision, gameLoop, coach, pending>>

SpecRotation == InitRotation /\ [][Turn]_vars

(***************************************************************************)
(* Geometry used to state the properties: the set of grid cells <<row,     *)
(* column>> (0-based) under the occupied cells of a shape at a position,   *)
(* and what it is for a cell to be barred on a grid.                       *)
(***************************************************************************)
Cells(shape, position) ==
  { <<position.y + c[1] - 1, position.x + c[2] - 1>> :
      c \in { d \in (1..Len(shape)) \X (1..Len(shape[1])) : shape[d[1]][d[2]] # 0 } }

Barred(cell, grid) ==
  \/ cell[2] < 0
  \/ cell[2] >= Len(grid[1])
  \/ cell[1] >= Len(grid)
  \/ (cell[1] >= 0 /\ grid[cell[1] + 1][cell[2] + 1] # nullCell)

\* the active piece of session state s lies on the free cells of the field
Free(s) ==
  \A cell \in Cells(s.currentPiece.shape, s.currentPiece.position) :
     /\ cell[1] >= 0
     /\ ~Barred(cell, s.grid)

(***************************************************************************)
(* C1: in every reachable state with an active piece, after any accepted   *)
(* move, moveToWall, rotate, start or lock-and-spawn (a blocked descent or *)
(* a hard drop), no occupied cell of the active piece lies left of column  *)
(* 0, at or beyond column width, at or below row height, or on a non-empty *)
(* settled grid cell.                                                      *)
(***************************************************************************)
C1_ActiveFreeAfterAccepted ==
  (/\ op.name \in {"move", "moveToEnd", "rotate", "start", "hardDrop"}
   /\ op.changed
   /\ gameState.currentPiece # nullPiece)
  => Free(gameState)

\* a moveToEnd has put the active piece against the right wall
C1_Witness ==
  /\ op.name = "moveToEnd" /\ op.changed
  /\ gameState.currentPiece # nullPiece
  /\ \E cell \in Cells(gameState.currentPiece.shape, gameState.currentPiece.position) :
        cell[2] = gameState.config.width - 1

(***************************************************************************)
(* C2: after hold() is accepted, the new active piece (the previously held *)
(* kind, or the queued next piece when nothing was held), placed at the    *)
(* spawn position, does not overlap any settled grid cell or wall.         *)
(***************************************************************************)
C2_HoldSpawnsFree ==
  (op.name = "hold" /\ op.changed) => Free(gameState)

Hits(shape, position, grid, dx, dy) ==
  \E cell \in Cells(shape, [x |-> position.x + dx, y |-> position.y + dy]) :
     Barred(cell, grid)

(***************************************************************************)
(* C4: for every grid, piece, offset (dx, dy) and optional override shape, *)
(* checkCollision returns true if and only if some occupied cell of the    *)
(* shape, at position + offset, has column < 0, column >= width, row >=    *)
(* height, or lies on an occupied grid cell at a row >= 0; cells at        *)
(* negative rows collide only with the side walls.                         *)
(***************************************************************************)
C4_CollisionIffBarredCell ==
  probe.name = "checkCollision" =>
    LET shape == IF probe.newShape = undefined THEN probe.piece.shape
                 ELSE probe.newShape
        cells == Cells(shape, [x |-> probe.piece.position.x + probe.moveX,
                               y |-> probe.piece.position.y + probe.moveY])
    IN  /\ probe.result = (\E cell \in cells : Barred(cell, gameState.grid))
        /\ (\A cell \in cells : cell[1] < 0)
             => probe.result = (\E cell \in cells :
                                  cell[2] < 0 \/ cell[2] >= Len(gameState.grid[1]))

\* a shape wholly above the grid, over an occupied cell of the top row, that
\* does not collide
C4_Witness ==
  /\ probe.name = "checkCollision"
  /\ ~probe.result
  /\ LET shape == IF probe.newShape = undefined THEN probe.piece.shape
                  ELSE probe.newShape
         cells == Cells(shape, [x |-> probe.piece.position.x + probe.moveX,
                                y |-> probe.piece.position.y + probe.moveY])
     IN  /\ \A cell \in cells : cell[1] < 0
         /\ \E cell \in cells : gameState.grid[1][cell[2] + 1] # nullCell

(***************************************************************************)
(* A lock, stated from the state before it: the step locks when a hard     *)
(* drop or a blocked descent is applied to a playing session; Landed is    *)
(* the piece as it is locked, Stamped the grid with its cells written,     *)
(* FullRows the rows of Stamped without an empty cell.                     *)
(***************************************************************************)
IsLock ==
  /\ gameState.status = "PLAYING"
  /\ gameState.currentPiece # nullPiece
  /\ \/ op'.name = "hardDrop"
     \/ /\ op'.name = "move" /\ op'.b > 0
        /\ ~gameState.isFrozen
        /\ Hits(gameState.currentPiece.shape, gameState.currentPiece.position,
                gameState.grid, op'.a, op'.b)

\* the largest distance d with offsets 1..d free and offset d + 1 barred
DropOf(piece, grid) ==
  CHOOSE d \in 0..Len(grid) :
    /\ \A k \in 1..d : ~Hits(piece.shape, piece.position, grid, 0, k)
    /\ Hits(piece.shape, piece.position, grid, 0, d + 1)

\* the piece as it is locked by the step
Landed ==
  IF op'.name = "hardDrop"
  THEN [gameState.currentPiece EXCEPT
          !.position.y = @ + DropOf(gameState.currentPiece, gameState.grid)]
  ELSE gameState.currentPiece

\* the grid with the color written on the given cells
StampOf(cells, color, grid) ==
  tuple([r \in 1..Len(grid) |->
    tuple([c \in 1..Len(grid[r]) |->
       IF <<r - 1, c - 1>> \in cells THEN color ELSE grid[r][c]])])

\* the grid a lock resolves: the one with the cells of the landed piece
\* written (a singleton set, to range over)
Stamped == {StampOf(Cells(p.shape, p.position), p.color, gameState.grid) : p \in {Landed}}

FullRowsOf(g) == {r \in 1..Len(g) : \A c \in 1..Len(g[r]) : g[r][c] # nullCell}

\* g2 is g without the rows of full: every other row has moved down by the
\* number of rows of full below it, above them are as many empty rows as
\* full has rows
ResolvesBy(full, g, g2) ==
  /\ Len(g2) = Len(g)
  /\ \A r \in (1..Len(g)) \ full :
       g2[r + Cardinality({q \in full : q > r})] = g[r]
  /\ \A j \in 1..Cardinality(full) :
       g2[j] = [c \in 1..Len(g[1]) |-> nullCell]

Resolves(g, g2) == \A full \in {FullRowsOf(g)} : ResolvesBy(full, g, g2)

\* the number of rows the lock clears (a singleton set, to range over)
Cleared == {Cardinality(FullRowsOf(g)) : g \in Stamped}

(***************************************************************************)
(* C5: when a lock resolves line clears, exactly the rows that are full    *)
(* after stamping the piece are removed, the remaining rows keep their     *)
(* contents and relative order and end up contiguous at the bottom, and as *)
(* many all-empty rows as were removed are inserted at the top; a row that *)
(* is not full is never removed or altered.                                *)
(***************************************************************************)
C5_ClearRemovesExactlyFullRows ==
  [][IsLock => \A g \in Stamped : Resolves(g, gameState'.grid)]_vars

\* three rows cleared at 20 lines: the row above them, which held the tops
\* of the two upright pieces, is now the bottom row
C5_Witness ==
  /\ op.name = "hardDrop"
  /\ gameState.lines = 23
  /\ \A c \in 1..10 : (gameState.grid[20][c] # nullCell) = (c \in {9, 10})
  /\ \A r \in 1..19 : \A c \in 1..10 : gameState.grid[r][c] = nullCell

(***************************************************************************)
(* C6: every lock increases score by exactly T[n] times the level held     *)
(* before the lock, n the number of rows cleared by that lock and T =      *)
(* {0:0, 1:100, 2:300, 3:500, 4:800}; a lock that clears no row leaves     *)
(* score, lines and level unchanged.                                       *)
(***************************************************************************)
T == [n \in 0..4 |-> CASE n = 0 -> 0 [] n = 1 -> 100 [] n = 2 -> 300
                       [] n = 3 -> 500 [] n = 4 -> 800]

C6_ScoreDeltaIsTableTimesLevel ==
  [][IsLock =>
       \A n \in Cleared :
          /\ n \in 0..4
          /\ gameState'.score = gameState.score + T[n] * gameState.level
          /\ n = 0 => /\ gameState'.score = gameState.score
                      /\ gameState'.lines = gameState.lines
                      /\ gameState'.level = gameState.level]_vars

\* two rows cleared at level 3 have added 900 to the 5600 of five four-row
\* clears
C6_Witness ==
  /\ op.name = "hardDrop"
  /\ gameState.lines = 22
  /\ gameState.level = 3
  /\ gameState.score = 5600 + 900

(***************************************************************************)
(* C7: every lock adds the number of rows it cleared to the lines counter, *)
(* including a lock whose following spawn collides and ends the game, so   *)
(* the lines shown in game-over equal the total rows cleared.              *)
(***************************************************************************)
C7_LockAddsClearedToLines ==
  [][IsLock => \A n \in Cleared : gameState'.lines = gameState.lines + n]_vars

(***************************************************************************)
(* C8: after a lock and its line clear, if the queued next piece placed at *)
(* its spawn position collides with the resulting grid, status becomes     *)
(* GAME_OVER and the active piece becomes absent; if it does not collide,  *)
(* status stays PLAYING.                                                   *)
(***************************************************************************)
C8_SpawnCollisionEndsGame ==
  [][IsLock =>
       IF Hits(gameState.nextPiece.shape, gameState.nextPiece.position,
               gameState'.grid, 0, 0)
       THEN /\ gameState'.status = "GAME_OVER"
            /\ gameState'.currentPiece = nullPiece
       ELSE /\ gameState'.status = "PLAYING"
            /\ gameState'.currentPiece = gameState.nextPiece]_vars

\* a lock has ended the game: the queued piece lies on a settled cell
C8_Witness ==
  /\ op.name = "hardDrop" /\ op.changed
  /\ gameState.status = "GAME_OVER"
  /\ gameState.currentPiece = nullPiece
  /\ Hits(gameState.nextPiece.shape, gameState.nextPiece.position,
          gameState.grid, 0, 0)

(***************************************************************************)
(* C9: hardDrop() while playing moves the active piece straight down by    *)
(* the largest distance d such that every downward offset 1..d is          *)
(* collision-free (offset d + 1 collides), keeps its column and shape, and *)
(* then always locks it there in the same step; on an empty 10x20 grid an  *)
(* O piece at spawn yields exactly 4 occupied cells, all in the bottom two *)
(* rows, and the queued piece becomes active.                              *)
(***************************************************************************)
C9_HardDropLandsAndLocks ==
  [][(/\ op'.name = "hardDrop"
      /\ gameState.status = "PLAYING"
      /\ gameState.currentPiece # nullPiece)
     =>
     \A piece \in {gameState.currentPiece} :
     \A d \in {DropOf(piece, gameState.grid)} :
         /\ \A k \in 1..d : ~Hits(piece.shape, piece.position, gameState.grid, 0, k)
         /\ Hits(piece.shape, piece.position, gameState.grid, 0, d + 1)
         /\ \A g \in {StampOf(Cells(piece.shape, [x |-> piece.position.x,
                                                  y |-> piece.position.y + d]),
                              piece.color, gameState.grid)} :
               Resolves(g, gameState'.grid)
         /\ gameState'.currentPiece \in {nullPiece, gameState.nextPiece}
         /\ (/\ gameState.grid = emptyGrid(10, 20)
             /\ piece.type = "O"
             /\ piece.shape = TETROMINOES["O"].shape
             /\ piece.position.y = 0)
            => /\ Cardinality({cell \in (1..20) \X (1..10) :
                                 gameState'.grid[cell[1]][cell[2]] # nullCell}) = 4
               /\ \A cell \in (1..20) \X (1..10) :
                    gameState'.grid[cell[1]][cell[2]] # nullCell => cell[1] \in {19, 20}
               /\ gameState'.currentPiece = gameState.nextPiece]_vars

\* the hard drop of the O piece of a fresh session: its four cells fill
\* columns 3..4 of the bottom two rows
C9_Witness ==
  /\ op.name = "hardDrop"
  /\ steps = 2
  /\ gameState.status = "PLAYING"
  /\ \A cell \in (1..20) \X (1..10) :
       (gameState.grid[cell[1]][cell[2]] = TETROMINOES["O"].color)
         = (cell[1] \in {19, 20} /\ cell[2] \in {4, 5})
  /\ \A cell \in (1..20) \X (1..10) :
       gameState.grid[cell[1]][cell[2]] \in {nullCell, TETROMINOES["O"].color}

(***************************************************************************)
(* C10: after an accepted hold(), can-hold is false and stays false until  *)
(* the next lock that spawns a piece sets it back to true; a second hold() *)
(* issued before that lock leaves the whole state unchanged, so at most    *)
(* one hold is accepted per piece lifetime.                                *)
(***************************************************************************)
C10_OneHoldPerPiece ==
  [][/\ (op'.name = "hold" /\ op'.changed) => ~gameState'.canHold
     /\ (/\ gameState.status = "PLAYING"
         /\ ~gameState.canHold
         /\ gameState'.canHold)
        => (IsLock /\ gameState'.status = "PLAYING")
     /\ (op'.name = "hold" /\ ~gameState.canHold) => gameState' = gameState]_vars

\* a second hold, issued while can-hold is false, has changed nothing
C10_Witness ==
  /\ op.name = "hold" /\ ~op.changed
  /\ gameState.status = "PLAYING"
  /\ gameState.heldPiece # nullPiece
  /\ ~gameState.canHold

(***************************************************************************)
(* C11: an accepted hold() stores the kind of the active piece in the held *)
(* slot with the catalog's unrotated shape and color of that kind.  If a   *)
(* piece was held, the active piece becomes the held kind with its catalog *)
(* shape and color at the spawn position and the queued piece is left as   *)
(* it is; if none was held, the queued piece becomes active at the spawn   *)
(* position and a newly generated piece is queued.  Grid, score, lines and *)
(* level are unchanged.  (The spawn position is the one start() gives.)    *)
(***************************************************************************)
HoldAccepted ==
  /\ op'.name = "hold"
  /\ gameState.status = "PLAYING"
  /\ gameState.currentPiece # nullPiece
  /\ gameState.canHold

\* is the piece one of the given kind as the catalog has it?
OfCatalog(piece, kind) ==
  /\ piece.type = kind
  /\ piece.shape = TETROMINOES[kind].shape
  /\ piece.color = TETROMINOES[kind].color

\* the position start() gives its first piece on the field of state s
SpawnOf(s) == startGame(s, "I", "I").currentPiece.position

C11_HoldSwapsWithCatalogPiece ==
  [][HoldAccepted =>
       /\ OfCatalog(gameState'.heldPiece, gameState.currentPiece.type)
       /\ IF gameState.heldPiece # nullPiece
          THEN /\ OfCatalog(gameState'.currentPiece, gameState.heldPiece.type)
               /\ gameState'.currentPiece.position = SpawnOf(gameState)
               /\ gameState'.nextPiece = gameState.nextPiece
          ELSE /\ gameState'.currentPiece =
                    [gameState.nextPiece EXCEPT !.position = SpawnOf(gameState)]
               /\ \E k \in Kinds : OfCatalog(gameState'.nextPiece, k)
       /\ gameState'.grid = gameState.grid
       /\ gameState'.score = gameState.score
       /\ gameState'.lines = gameState.lines
       /\ gameState'.level = gameState.level]_vars

\* the T held by the first hold has come back for the S that followed the L
\* locked in between: the S is held, the T is active, the L lies settled
C11_Witness ==
  /\ op.name = "hold" /\ op.changed
  /\ gameState.heldPiece.type = "S"
  /\ gameState.currentPiece.type = "T"
  /\ gameState.lines = 0
  /\ \E c \in 1..Len(gameState.grid[INITIAL_HEIGHT]) :
        gameState.grid[INITIAL_HEIGHT][c] = TETROMINOES["L"].color

(***************************************************************************)
(* C12: for each of the seven shapes of the catalog, four clockwise turns  *)
(* in a row give back a shape identical to the original, and so do four    *)
(* counter-clockwise turns.                                                *)
(***************************************************************************)
C12_FourTurnsAreIdentity ==
  (/\ probe.name = "rotateShape"
   /\ Len(probe.turns) = 4
   /\ \A i \in 1..4 : probe.turns[i] = probe.turns[1])
  => probe.shape = TETROMINOES[probe.kind].shape

\* the L after four clockwise turns
C12_Witness ==
  /\ probe.name = "rotateShape"
  /\ probe.kind = "L"
  /\ probe.turns = <<TRUE, TRUE, TRUE, TRUE>>
  /\ probe.shape = TETROMINOES["L"].shape

(***************************************************************************)
(* C13: move, moveToWall, rotate, hardDrop, hold and toggleFreeze issued   *)
(* while the status is idle or game-over, or while there is no active      *)
(* piece, leave every field of the session state unchanged.                *)
(***************************************************************************)
PlayIntents == {"move", "moveToEnd", "rotate", "hardDrop", "hold", "freeze"}

C13_IntentsOutsidePlayAreNoOps ==
  [][(/\ op'.name \in PlayIntents
      /\ \/ gameState.status \in {"IDLE", "GAME_OVER"}
         \/ gameState.currentPiece = nullPiece)
     => gameState' = gameState]_vars

\* a rotate issued after the game has ended on a field with settled cells
C13_Witness ==
  /\ op.name = "rotate" /\ op.from = "GAME_OVER" /\ ~op.changed
  /\ gameState.status = "GAME_OVER"
  /\ gameState.currentPiece = nullPiece
  /\ \E c \in 1..Len(gameState.grid[1]) : gameState.grid[1][c] # nullCell

(***************************************************************************)
(* C14: a lateral move (dy = 0) whose target position collides, and a      *)
(* rotation whose rotated shape collides at the current position, leave    *)
(* the whole session state unchanged: the piece keeps its position and its *)
(* shape, nothing is locked and no other offset is tried.                  *)
(***************************************************************************)
C14_RejectedMoveOrTurnChangesNothing ==
  [][(/\ gameState.status = "PLAYING"
      /\ gameState.currentPiece # nullPiece
      /\ \/ /\ op'.name = "move" /\ op'.b = 0
            /\ Hits(gameState.currentPiece.shape, gameState.currentPiece.position,
                    gameState.grid, op'.a, 0)
         \/ /\ op'.name = "rotate"
            /\ Hits(rotateShape(gameState.currentPiece.shape, op'.a = 1),
                    gameState.currentPiece.position, gameState.grid, 0, 0))
     => gameState' = gameState]_vars

\* an upright I in the last column, not frozen, whose turn was rejected: flat
\* it would reach beyond the right wall, one column to the left it would fit
C14_Witness ==
  /\ op.name = "rotate" /\ ~op.changed
  /\ gameState.status = "PLAYING" /\ ~gameState.isFrozen
  /\ gameState.currentPiece.type = "I"
  /\ Hits(rotateShape(gameState.currentPiece.shape, op.a = 1),
          gameState.currentPiece.position, gameState.grid, 0, 0)
  /\ ~Hits(rotateShape(gameState.currentPiece.shape, op.a = 1),
           gameState.currentPiece.position, gameState.grid, -1, 0)

(***************************************************************************)
(* C15: while the frozen flag is set, gravity and downward movement are    *)
(* suspended: no gravity tick, soft drop or hard drop changes the row of   *)
(* the active piece, locks it or changes the grid, and the flag stays set  *)
(* until toggleFreeze clears it.                                           *)
(***************************************************************************)
C15_FrozenSuspendsDescent ==
  [][(/\ gameState.status = "PLAYING"
      /\ gameState.isFrozen
      /\ \/ op'.name = "hardDrop"
         \/ op'.name = "move" /\ op'.b > 0)
     => /\ gameState'.currentPiece = gameState.currentPiece
        /\ gameState'.grid = gameState.grid
        /\ gameState'.isFrozen]_vars

(***************************************************************************)
(* C16: start() from idle or game-over yields status playing with an       *)
(* all-empty grid of the configured width and height, an active piece at   *)
(* its spawn position, one queued piece, score 0, lines 0, level 1, frozen *)
(* false, can-hold true and no held piece, whatever the session before has *)
(* left behind.  (The spawn position is the one a lock gives the piece.)   *)
(***************************************************************************)
\* is g a grid of h rows of w cells, all of them empty?
IsEmptyGrid(g, w, h) ==
  /\ Len(g) = h
  /\ \A r \in 1..h : Len(g[r]) = w /\ \A c \in 1..w : g[r][c] = nullCell

\* the position a lock of this revision gives the piece it spawns: column
\* floor(width / 2) - 2 in src/App.tsx, floor(width / 2) less half the width
\* of the shape (rounded down) in src/constants.ts
LockSpawnOf(piece, config) ==
  IF revision = "App.tsx"
  THEN [x |-> (config.width \div 2) - 2, y |-> 0]
  ELSE [x |-> (config.width \div 2) - (Len(piece.shape[1]) \div 2), y |-> 0]

C16_StartYieldsFreshSession ==
  [][(op'.name = "start" /\ gameState.status \in {"IDLE", "GAME_OVER"})
     => /\ gameState'.status = "PLAYING"
        /\ IsEmptyGrid(gameState'.grid, gameState.config.width, gameState.config.height)
        /\ gameState'.config = gameState.config
        /\ gameState'.currentPiece # nullPiece
        /\ \E k \in Kinds : OfCatalog(gameState'.currentPiece, k)
        /\ gameState'.currentPiece.position =
              LockSpawnOf(gameState'.currentPiece, gameState.config)
        /\ \E k \in Kinds : OfCatalog(gameState'.nextPiece, k)
        /\ gameState'.score = 0
        /\ gameState'.lines = 0
        /\ gameState'.level = 1
        /\ ~gameState'.isFrozen
        /\ gameState'.canHold
        /\ gameState'.heldPiece = nullPiece]_vars

\* a session started after a game has ended
C16_Witness ==
  /\ op.name = "start" /\ op.from = "GAME_OVER" /\ op.changed
  /\ gameState.status = "PLAYING"
  /\ gameState.currentPiece # nullPiece
  /\ IsEmptyGrid(gameState.grid, gameState.config.width, gameState.config.height)

(***************************************************************************)
(* C17: stop() yields status idle with no active piece, score 0, lines 0,  *)
(* level 1 and frozen false, whatever the status it is issued in.          *)
(***************************************************************************)
C17_StopResetsToIdle ==
  [][op'.name = "stop"
     => /\ gameState'.status = "IDLE"
        /\ gameState'.currentPiece = nullPiece
        /\ gameState'.score = 0
        /\ gameState'.lines = 0
        /\ gameState'.level = 1
        /\ ~gameState'.isFrozen]_vars

\* the session with 8 lines (an O active, a T queued) has been stopped while
\* it was playing: the T is still queued, the rows are still settled
C17_Witness ==
  /\ op.name = "stop" /\ op.from = "PLAYING" /\ op.changed
  /\ gameState.status = "IDLE"
  /\ gameState.currentPiece = nullPiece
  /\ gameState.nextPiece.type = "T"
  /\ gameState.score = 0 /\ gameState.lines = 0
  /\ \E c \in 1..Len(gameState.grid[INITIAL_HEIGHT]) :
        gameState.grid[INITIAL_HEIGHT][c] # nullCell

(***************************************************************************)
(* C18: the configuration (width, height, baseSpeed) and the dimensions of *)
(* the grid change only while the status is idle; a reconfigure issued     *)
(* while playing or game-over changes nothing.  (The range inputs exist    *)
(* only while idle, so the session never receives one in another status.)  *)
(***************************************************************************)
\* the height of a grid and the widths of its rows
DimsOf(g) == <<Len(g), [r \in 1..Len(g) |-> Len(g[r])]>>

Reconfigures == {"width", "baseSpeed"}

C19_GridHasConfiguredDimensions ==
  /\ Len(gameState.grid) = gameState.config.height
  /\ \A r \in 1..Len(gameState.grid) :
       Len(gameState.grid[r]) = gameState.config.width

\* on the field of width 6 a lock has cleared two rows
C19_Witness ==
  /\ gameState.config.width = 6
  /\ op.name = "hardDrop" /\ op.changed
  /\ gameState.lines = 2
  /\ DimsOf(gameState.grid) = <<INITIAL_HEIGHT, [r \in 1..INITIAL_HEIGHT |-> 6]>>

(***************************************************************************)
(* C20: reconfiguring the width while idle replaces the grid by an         *)
(* all-empty grid of the new width and the unchanged height, also when the *)
(* grid still held the settled cells of a stopped session; reconfiguring   *)
(* baseSpeed leaves the grid unchanged.                                    *)
(***************************************************************************)
C20_WidthRebuildsGridSpeedKeepsIt ==
  [][/\ (op'.name = "width" /\ gameState.status = "IDLE")
        => /\ IsEmptyGrid(gameState'.grid, op'.a, gameState.config.height)
           /\ gameState'.config = [gameState.config EXCEPT !.width = op'.a]
     /\ (op'.name = "baseSpeed" /\ gameState.status = "IDLE")
        => /\ gameState'.grid = gameState.grid
           /\ gameState'.config = [gameState.config EXCEPT !.baseSpeed = op'.a]]_vars

\* a session with settled rows and a T queued has been stopped and the width
\* then set to 7: the grid is empty, 7 wide and as high as before
C20_Witness ==
  /\ op.name = "width" /\ op.a = 7 /\ op.from = "IDLE" /\ op.changed
  /\ steps = 2
  /\ gameState.nextPiece.type = "T"
  /\ gameState.config.width = 7
  /\ IsEmptyGrid(gameState.grid, 7, INITIAL_HEIGHT)

(***************************************************************************)
(* updateConfig as an operation of its own: called in the IDLE panel with  *)
(* values inside and outside the ranges that the two range inputs offer.   *)
(***************************************************************************)
PassedWidths == 4..22

PassedSpeeds == {50, 100, 500, 1000, 1050}

InitReconfigure ==
  /\ revision = "constants.ts"
  /\ gameState = initialState
  /\ op = noOp
  /\ steps = 0
  /\ probe = noOp
  /\ gameLoop = gravityAtMount(gameState)
  /\ coach = coachF
  /\ pending = <<>>

Reconfigure ==
  /\ gameState.status = "IDLE"
  /\ \/ \E w \in PassedWidths : StepF(Intent("width", w, 0, "I", "I"))
     \/ \E v \in PassedSpeeds : StepF(Intent("baseSpeed", v, 0, "I", "I"))

SpecReconfigure == InitReconfigure /\ [][Reconfigure]_vars

(***************************************************************************)
(* C21: reconfigure rejects or clamps out-of-range values: in every state  *)
(* the configured width is within 6..20 and the configured base speed is   *)
(* within 100..1000, whatever values are passed to reconfigure.            *)
(***************************************************************************)
C21_ConfigStaysInRange ==
  /\ gameState.config.width \in 6..20
  /\ gameState.config.baseSpeed \in 100..1000

(***************************************************************************)
(* C22: the gravity interval is armed exactly when status is PLAYING and   *)
(* the piece is not frozen (so it is disarmed by every change to IDLE, to  *)
(* GAME_OVER or to frozen), and a gravity tick, move(0, 1), that arrives   *)
(* in any other state leaves the session state unchanged.                  *)
(***************************************************************************)
Running(s) == s.status = "PLAYING" /\ ~s.isFrozen

C22_TimerArmedIffPlayingUnfrozen ==
  /\ [](gameLoop <=> Running(gameState))
  /\ [][(op'.name = "move" /\ op'.a = 0 /\ op'.b = 1 /\ ~Running(gameState))
          => gameState' = gameState]_vars

\* a tick has arrived while the piece was frozen, and the interval is disarmed
C22_Witness ==
  /\ op.name = "move" /\ op.a = 0 /\ op.b = 1
  /\ gameState.status = "PLAYING"
  /\ gameState.isFrozen
  /\ ~gameLoop
  /\ ~op.changed

(***************************************************************************)
(* C23: a downward move (soft drop or gravity tick) whose target collides  *)
(* locks the active piece at its current position in that same step; a    *)
(* move whose target is free only translates the piece by (dx, dy) and     *)
(* changes nothing else; a blocked lateral move never locks.               *)
(***************************************************************************)
C23_MoveTranslatesOrLocksWhenBlockedBelow ==
  [][(/\ op'.name = "move"
      /\ gameState.status = "PLAYING"
      /\ gameState.currentPiece # nullPiece
      /\ op'.b = 0 \/ ~gameState.isFrozen)
     =>
     \A piece \in {gameState.currentPiece} :
       IF ~Hits(piece.shape, piece.position, gameState.grid, op'.a, op'.b)
       THEN gameState' = [gameState EXCEPT
                            !.currentPiece.position =
                               [x |-> piece.position.x + op'.a,
                                y |-> piece.position.y + op'.b]]
       ELSE IF op'.b > 0
       THEN /\ \A g \in {StampOf(Cells(piece.shape, piece.position),
                                 piece.color, gameState.grid)} :
                 Resolves(g, gameState'.grid)
            /\ gameState'.grid # gameState.grid
            /\ gameState'.currentPiece \in {nullPiece, gameState.nextPiece}
       ELSE gameState' = gameState]_vars

\* a soft drop of a piece that rested on the stack: it was locked where it
\* was and the queued piece has appeared at the top
C23_Witness ==
  /\ op.name = "move" /\ op.b = 1 /\ op.changed
  /\ gameState.status = "PLAYING"
  /\ gameState.currentPiece.position.y = 0
  /\ gameState.grid # emptyGrid(gameState.config.width, gameState.config.height)

(***************************************************************************)
(* C24: after a lock whose spawn does not collide, the new active piece    *)
(* has the kind and shape of the previously queued piece and is at its     *)
(* spawn position, a newly generated piece is queued, can-hold is true and *)
(* frozen is false.                                                        *)
(***************************************************************************)
C24_LockPromotesQueuedPiece ==
  [][(IsLock /\ gameState'.status = "PLAYING")
     =>
     /\ gameState'.currentPiece.type = gameState.nextPiece.type
     /\ gameState'.currentPiece.shape = gameState.nextPiece.shape
     /\ gameState'.currentPiece.color = gameState.nextPiece.color
     /\ gameState'.currentPiece.position
          = LockSpawnOf(gameState.nextPiece, gameState.config)
     /\ \E kind \in Kinds :
          /\ OfCatalog(gameState'.nextPiece, kind)
          /\ gameState'.nextPiece.position
               = LockSpawnOf(gameState'.nextPiece, gameState.config)
     /\ gameState'.canHold
     /\ ~gameState'.isFrozen]_vars

\* the L that took the place of the held T has been dropped: the queued S is
\* active at the top and a hold is allowed again
C24_Witness ==
  /\ op.name = "hardDrop" /\ op.changed
  /\ gameState.status = "PLAYING"
  /\ gameState.heldPiece # nullPiece
  /\ gameState.heldPiece.type = "T"
  /\ gameState.currentPiece.type = "S"
  /\ gameState.currentPiece.position.y = 0
  /\ gameState.canHold
  /\ ~gameState.isFrozen

(***************************************************************************)
(* C25: moveToEnd(direction) while playing and not frozen moves the active *)
(* piece to the farthest column in that direction that is reachable        *)
(* through collision-free single steps (one further step would collide),   *)
(* keeps its row and shape, and never locks; while frozen it leaves the    *)
(* state unchanged.                                                        *)
(***************************************************************************)
C25_MoveToEndReachesFarthestColumn ==
  [][(/\ op'.name = "moveToEnd"
      /\ gameState.status = "PLAYING"
      /\ gameState.currentPiece # nullPiece)
     =>
     \A piece \in {gameState.currentPiece} :
       IF gameState.isFrozen
       THEN gameState' = gameState
       ELSE \E d \in 0..gameState.config.width :
              /\ \A k \in 1..d :
                   ~Hits(piece.shape, piece.position, gameState.grid, k * op'.a, 0)
              /\ Hits(piece.shape, piece.position, gameState.grid, (d + 1) * op'.a, 0)
              /\ gameState' = [gameState EXCEPT
                                 !.currentPiece.position.x = @ + d * op'.a]]_vars

\* the piece has been sent to the right and stands against a settled cell,
\* not against the wall
C25_Witness ==
  /\ op.name = "moveToEnd" /\ op.a = 1 /\ op.changed
  /\ gameState.status = "PLAYING"
  /\ ~gameState.isFrozen
  /\ Hits(gameState.currentPiece.shape, gameState.currentPiece.position,
          gameState.grid, 1, 0)
  /\ \A cell \in Cells(gameState.currentPiece.shape,
                       [x |-> gameState.currentPiece.position.x + 1,
                        y |-> gameState.currentPiece.position.y]) :
       cell[2] < gameState.config.width

(***************************************************************************)
(* C26: every piece that becomes active (at start, after a lock, or        *)
(* through hold) is placed at x = floor(width / 2) - floor(shapeWidth / 2), *)
(* y = 0, where shapeWidth is the number of columns of the shape matrix of *)
(* that piece and width is the current width of the field.                 *)
(***************************************************************************)
BecomesActive ==
  \/ op'.name = "start" /\ gameState'.status = "PLAYING"
  \/ IsLock /\ gameState'.status = "PLAYING"
  \/ HoldAccepted

C26_SpawnIsCentredOnShapeWidth ==
  [][BecomesActive =>
       gameState'.currentPiece.position
         = [x |-> (gameState'.config.width \div 2)
                    - (Len(gameState'.currentPiece.shape[1]) \div 2),
            y |-> 0]]_vars

(***************************************************************************)
(* C29: the status changes only along IDLE -> PLAYING (start), PLAYING ->  *)
(* GAME_OVER (a lock whose spawn collides), GAME_OVER -> PLAYING (start)   *)
(* and PLAYING or GAME_OVER -> IDLE (stop); no move, rotate, drop, hold or *)
(* freeze intent ever leaves GAME_OVER, and the status is never PAUSED.    *)
(***************************************************************************)
C29_StatusFollowsTheFourTransitions ==
  /\ [](gameState.status \in {"IDLE", "PLAYING", "GAME_OVER"})
  /\ [][gameState'.status # gameState.status
        => \/ /\ gameState.status \in {"IDLE", "GAME_OVER"}
              /\ gameState'.status = "PLAYING"
              /\ op'.name = "start"
           \/ /\ gameState.status = "PLAYING"
              /\ gameState'.status = "GAME_OVER"
              /\ IsLock
              /\ Hits(gameState.nextPiece.shape,
                      LockSpawnOf(gameState.nextPiece, gameState.config),
                      gameState'.grid, 0, 0)
           \/ /\ gameState.status \in {"PLAYING", "GAME_OVER"}
              /\ gameState'.status = "IDLE"
              /\ op'.name = "stop"]_vars
  /\ [][(op'.name \in PlayIntents /\ gameState.status = "GAME_OVER")
        => gameState'.status = "GAME_OVER"]_vars

\* a session that had ended is playing again after start
C29_Witness ==
  /\ op.name = "start" /\ op.from = "GAME_OVER"
  /\ gameState.status = "PLAYING"
  /\ gameState.score = 0

(***************************************************************************)
(* C30: in every reachable state an active piece exists if and only if the *)
(* status is PLAYING: it is absent in IDLE and GAME_OVER and present       *)
(* throughout PLAYING, including right after a hold and after a lock that  *)
(* spawns.                                                                 *)
(***************************************************************************)
C30_ActivePieceIffPlaying ==
  (gameState.currentPiece # nullPiece) <=> (gameState.status = "PLAYING")

\* right after the first hold of a session: the queued piece is active
C30_Witness ==
  /\ op.name = "hold" /\ op.changed
  /\ gameState.status = "PLAYING"
  /\ gameState.currentPiece # nullPiece
  /\ gameState.heldPiece # nullPiece
  /\ ~gameState.canHold
  /\ steps = 1

(***************************************************************************)
(* C27: issuing a commentary request and applying its result or its        *)
(* fallback never changes a field of the session (grid, active, queued and *)
(* held piece, score, lines, level, status, frozen, can-hold,              *)
(* configuration) and never arms or disarms the gravity interval; a        *)
(* request that fails yields the fixed fallback string, not an error.      *)
(***************************************************************************)
\* the step issues a request
Issues == coach'.issued # coach.issued

\* the step applies the result of a request
Applies == op'.name = "resolve"

C27_CommentaryIsCosmetic ==
  [][/\ Applies
          => /\ gameState' = gameState
             /\ gameLoop' = gameLoop
             /\ coach'.comment \in STRING
             /\ op'.from \in {"empty", "error"}
                  => coach'.comment = "Keep stacking those bytes, runner."
     /\ Issues
          => /\ \E k1 \in Kinds, k2 \in Kinds :
                  gameState' = apply(gameState, Intent(op'.name, op'.a, op'.b, k1, k2))
             /\ gameLoop' = Running(gameState')
             /\ coach'.comment = coach.comment]_vars

\* of two requests the second to end has failed: the comment is the fallback
\* and the session plays on
C27_Witness ==
  /\ op.name = "resolve" /\ op.from = "error"
  /\ coach.issued = 2
  /\ coach.inflight = <<>>
  /\ coach.comment = "Keep stacking those bytes, runner."
  /\ gameState.status = "PLAYING"
  /\ gameLoop

(***************************************************************************)
(* C28: commentary results are applied in the order they arrive, with no   *)
(* cancellation and no staleness check: a new request leaves the requests  *)
(* in flight as they are, and each result is displayed when it arrives, so *)
(* of two requests in flight the displayed comment ends up being that of   *)
(* the one that completes last, even when it was issued first or the       *)
(* session has changed status since.                                       *)
(***************************************************************************)
C28_LastArrivingCommentWins ==
  [][/\ Applies
          => \E i \in 1..Len(coach.inflight) :
               /\ coach.inflight[i].id = op'.a
               /\ coach'.comment = IF op'.from = "text"
                                   THEN replyText(coach.inflight[i])
                                   ELSE "Keep stacking those bytes, runner."
               /\ coach'.inflight = without(coach.inflight, i)
               /\ coach'.issued = coach.issued
     /\ Issues
          => /\ Len(coach'.inflight) = Len(coach.inflight) + 1
             /\ SubSeq(coach'.inflight, 1, Len(coach.inflight)) = coach.inflight
             /\ coach'.inflight[Len(coach'.inflight)].status = gameState'.status
             /\ coach'.comment = coach.comment]_vars

\* the request issued when the game ended has completed after the one
\* issued at the restart: its comment is displayed while the session plays
C28_Witness ==
  /\ op.name = "resolve" /\ op.a = 1 /\ op.from = "text"
  /\ coach.issued = 2
  /\ coach.inflight = <<>>
  /\ coach.comment = "re GAME_OVER #1"
  /\ gameState.status = "PLAYING"

(***************************************************************************)
(* C31: no sequence of rotate, hold, lock and start operations changes the *)
(* shape matrix the catalog has for a kind: every newly generated, spawned *)
(* or held piece of a kind carries the original, unrotated shape of that   *)
(* kind, and rotating one piece never changes the shape of the queued or   *)
(* the held piece.                                                         *)
(***************************************************************************)
Unturned(piece) ==
  piece # nullPiece => piece.shape = TETROMINOES[piece.type].shape

C31_CatalogShapesStayIntact ==
  /\ [](Unturned(gameState.nextPiece) /\ Unturned(gameState.heldPiece))
  /\ [][BecomesActive => Unturned(gameState'.currentPiece)]_vars
  /\ [][op'.name = "rotate"
          => /\ gameState'.nextPiece = gameState.nextPiece
             /\ gameState'.heldPiece = gameState.heldPiece]_vars

\* a piece has been turned while a piece of the same kind is queued: the
\* queued one still has the shape of the catalog
C31_Witness ==
  /\ op.name = "rotate" /\ op.changed
  /\ gameState.nextPiece.type = gameState.currentPiece.type
  /\ gameState.currentPiece.shape # TETROMINOES[gameState.currentPiece.type].shape
  /\ gameState.nextPiece.shape = TETROMINOES[gameState.nextPiece.type].shape

(***************************************************************************)
(* The update queue of the session of src/App.tsx.  Every handler passes   *)
(* setGameState a function of prev; the functions that arrive before the   *)
(* next render wait in pending and the render runs them in the order of    *)
(* their arrival, each on the result of the one before.  A key is listened *)
(* to while the rendered status is PLAYING, a tick arrives while the       *)
(* interval is armed.  One batch is explored from each starting state.     *)
(***************************************************************************)
MaxPending == 2

\* the kinds drawn by the updates of a batch
BatchKinds == {"I", "O"}

\* handleKeyDown: the intents of the keys
KeyIntents ==
  {Intent("move", dx, 0, "I", "I") : dx \in {-1, 1}}
  \cup {Intent("move", 0, 1, k, "I") : k \in BatchKinds}
  \cup {Intent("rotate", 1, 0, "I", "I")}
  \cup {Intent("hardDrop", 0, 0, k, "I") : k \in BatchKinds}
  \cup {Intent("hold", 0, 0, k, "I") : k \in BatchKinds}
  \cup {Intent("freeze", 0, 0, "I", "I")}

\* setGameState(prev => ...): the update joins the queue; by tells the key
\* listener from the interval
Enqueue(i, by) ==
  /\ revision = "App.tsx"
  /\ steps = 0
  /\ Len(pending) < MaxPending
  /\ pending' = Append(pending, [name |-> i.name, a |-> i.a, b |-> i.b,
                                 k1 |-> i.k1, k2 |-> i.k2, by |-> by])
  /\ UNCHANGED <<gameState, op, steps, probe, revision, gameLoop, coach>>

KeyDown ==
  /\ gameState.status = "PLAYING"
  /\ \E i \in KeyIntents : Enqueue(i, "key")

Tick ==
  /\ gameLoop
  /\ \E k \in BatchKinds : Enqueue(Intent("move", 0, 1, k, "I"), "tick")

\* the render: the queued updates run in order, then the effects; op
\* records the last of them
Render ==
  /\ revision = "App.tsx"
  /\ pending # <<>>
  /\ gameState' = run(gameState, pending)
  /\ gameLoop' = gravityEffect(gameState, gameState', gameLoop)
  /\ coach' = commentaryEffect(gameState, gameState', coach)
  /\ op' = Called(pending[Len(pending)], gameState.status, gameState' # gameState)
  /\ steps' = steps + 1
  /\ pending' = <<>>
  /\ UNCHANGED <<probe, revision>>

NextBatch == KeyDown \/ Tick \/ Render

SpecBatch == InitApp /\ [][NextBatch]_vars

(***************************************************************************)
(* C32: every input intent and every gravity tick is applied as one atomic *)
(* update computed from the latest session state: whatever the             *)
(* interleaving of ticks and intents, the result equals applying them one  *)
(* at a time in the order of their arrival, no update is lost, and a lock  *)
(* changes grid, score, lines, level and pieces in a single step, so that  *)
(* no state with a stamped piece and stale counters is reachable.          *)
(***************************************************************************)
\* the handlers of q applied to s one at a time, the last of q last
RECURSIVE OneAtATime(_, _)
OneAtATime(s, q) ==
  IF q = <<>> THEN s
  ELSE apply(OneAtATime(s, SubSeq(q, 1, Len(q) - 1)), q[Len(q)])

\* the step is a render of the queue
Renders == pending # <<>> /\ pending' = <<>>

C32_UpdatesAreSerialAndWhole ==
  [][Renders =>
       /\ gameState' = OneAtATime(gameState, pending)
       /\ (Len(pending) = 1 /\ IsLock)
            => \A n \in Cleared :
                 /\ \A g \in Stamped : Resolves(g, gameState'.grid)
                 /\ gameState'.score = gameState.score + T[n] * gameState.level
                 /\ gameState'.lines = gameState.lines + n
                 /\ gameState'.level = ((gameState.lines + n) \div 10) + 1
                 /\ gameState'.currentPiece \in {nullPiece, gameState.nextPiece}]_vars

(***************************************************************************)
(* C33: in every reachable state the settled grid contains no completely   *)
(* filled row: any row filled by a lock is removed in that same lock step. *)
(***************************************************************************)
C33_NoFullRowSettles == FullRowsOf(gameState.grid) = {}

\* the upright I has been dropped into the well beside four rows: the four
\* rows it completed are gone and counted
C33_Witness ==
  /\ op.name = "hardDrop" /\ op.changed
  /\ steps = 1
  /\ gameState.lines = 4
  /\ gameState.score = 800
  /\ gameState.grid = emptyGrid(gameState.config.width, gameState.config.height)

(***************************************************************************)
(* C35: in every reachable state every occupied cell of the active piece   *)
(* has a row in [0, height) and a column in [0, width), and the piece has  *)
(* exactly 4 occupied cells; so the row of the active piece is never       *)
(* negative and the clipping of rows in the lock never discards a cell.    *)
(***************************************************************************)
C35_ActiveCellsInsideField ==
  gameState.currentPiece # nullPiece =>
    \A cells \in {Cells(gameState.currentPiece.shape, gameState.currentPiece.position)} :
      /\ Cardinality(cells) = 4
      /\ \A cell \in cells :
           /\ cell[1] \in 0..(gameState.config.height - 1)
           /\ cell[2] \in 0..(gameState.config.width - 1)
      /\ gameState.currentPiece.position.y >= 0

\* a T that a lock has just spawned has been turned at the top: its cells
\* reach row 0
C35_Witness ==
  /\ op.name = "rotate" /\ op.changed
  /\ gameState.currentPiece.type \in {"T", "J", "L", "S", "Z"}
  /\ gameState.currentPiece.position.y = 0
  /\ \E cell \in Cells(gameState.currentPiece.shape, gameState.currentPiece.position) :
       cell[1] = 0
  /\ gameState.grid # emptyGrid(gameState.config.width, gameState.config.height)

(***************************************************************************)
(* The lifetime of one piece of src/App.tsx under gravity: ticks of the    *)
(* interval and keys of the player, without a bound on their number, up to *)
(* the first lock.  The interval fires again and again while it is armed,  *)
(* which is the weak fairness of GravityTick.                              *)
(***************************************************************************)
\* the last step has locked a piece: a hard drop, or a descent after which
\* a piece is at the top or the game is over
Locked ==
  \/ op.name = "hardDrop" /\ op.changed
  \/ /\ op.name = "move" /\ op.b = 1 /\ op.changed
     /\ \/ gameState.status = "GAME_OVER"
        \/ gameState.currentPiece.position.y = 0

\* a handler runs on the session of the piece
Play(i) ==
  /\ revision = "App.tsx"
  /\ ~Locked
  /\ gameState' = apply(gameState, i)
  /\ gameLoop' = gravityEffect(gameState, gameState', gameLoop)
  /\ coach' = commentaryEffect(gameState, gameState', coach)
  /\ op' = Called(i, gameState.status, gameState' # gameState)
  /\ UNCHANGED <<steps, probe, revision, pending>>

GravityTick ==
  /\ gameLoop
  /\ \E k \in BatchKinds : Play(Intent("move", 0, 1, k, "I"))

KeyPress ==
  /\ gameState.status = "PLAYING"
  /\ \E i \in KeyIntents : Play(i)

\* the sessions whose piece is followed: nothing held yet, the piece below
\* the top (a hold then brings the queued piece in at the top)
SnapGravity ==
  {s \in SnapApp : /\ s.status = "PLAYING"
                   /\ s.heldPiece = nullPiece
                   /\ s.currentPiece.position.y > 0}

InitGravity ==
  /\ InitApp
  /\ gameState \in SnapGravity

NextGravity == GravityTick \/ KeyPress

\* a tick can happen: ENABLED <<GravityTick>>_vars, written as the guard of
\* the action (a descent of a running game always changes the state)
GravityArmed == gameLoop /\ revision = "App.tsx" /\ ~Locked

\* WF_vars(GravityTick), with its ENABLED written as GravityArmed: from
\* some point on a tick is never possible, or ticks happen again and again
FairGravity == <>[]GravityArmed => []<><<GravityTick>>_vars

SpecGravity == InitGravity /\ [][NextGravity]_vars /\ FairGravity

(***************************************************************************)
(* C34: while the status stays PLAYING and frozen stays false, under fair  *)
(* gravity ticks the active piece is eventually locked (a lock that spawns *)
(* or a game over occurs): no sequence of lateral moves, rotations or a    *)
(* hold postpones the lock for ever, because the row of the piece never    *)
(* decreases except through the single hold allowed per piece.             *)
(***************************************************************************)
C34_GravityEventuallyLocks ==
  /\ Running(gameState) ~> (Locked \/ ~Running(gameState))
  /\ [][(gameState.status = "PLAYING" /\ gameState'.status = "PLAYING" /\ ~Locked')
          => \/ gameState'.currentPiece.position.y >= gameState.currentPiece.position.y
             \/ HoldAccepted]_vars
  /\ [][(HoldAccepted /\ ~Locked') => ~gameState'.canHold]_vars

\* a tick has locked the piece that came in through a hold
C34_Witness ==
  /\ Locked
  /\ op.name = "move"
  /\ gameState.status = "PLAYING"
  /\ gameState.heldPiece # nullPiece
  /\ gameState.canHold
====
